---- MODULE Spec2Model ----
(***************************************************************************)
(* A model of the read-only SQLite query engine of this repository: the    *)
(* varint and record decoders, the page parser, the schema catalog, the    *)
(* three B-tree traversals and the query entry points.                      *)
(*                                                                         *)
(* Conventions.  A string (Rust String / &str) is a sequence of ASCII      *)
(* codes; a byte buffer (Vec<u8>, &[u8]) is a sequence of numbers 0..255.  *)
(* Offsets are zero-based as in the source: B(data, pos) is data[pos].     *)
(* An Option<T> is [some |-> BOOLEAN, v |-> T]; a Result is a record with  *)
(* a field tag that is "Ok", "Err" or "Panic" (a panic unwinds through     *)
(* every caller exactly as an Err propagated by `?` does, but ends the     *)
(* process by abort instead of by a returned error).                       *)
(*                                                                         *)
(* What a function f of the source does after a `let x = e;` is an         *)
(* operator of x, applied to e, so that e is written, and evaluated, once: *)
(* in the decoders a local one (LET Step(x) == ... IN Step(e)); in the     *)
(* functions that call them the operator f_x, which stands before f and    *)
(* takes x after the names it still needs, so that the body of f reads     *)
(* from f upwards.                                                         *)
(***************************************************************************)
EXTENDS Integers, Sequences, FiniteSets, TLC

VARIABLES pc, input, call, out

vars == <<pc, input, call, out>>

(***************************************************************************)
(* Strings                                                                 *)
(***************************************************************************)

\* The printable ASCII characters, code 32 (space) to 126 (~), in order; the
\* three that a string literal here cannot hold are spelled out by name.
AsciiChars ==
  <<" ", "!", "DQUOTE", "#", "$", "%", "&", "'", "(", ")", "*", "+", ",", "-", ".", "/",
    "0", "1", "2", "3", "4", "5", "6", "7", "8", "9", ":", ";", "<", "=", ">", "?",
    "@", "A", "B", "C", "D", "E", "F", "G", "H", "I", "J", "K", "L", "M", "N", "O",
    "P", "Q", "R", "S", "T", "U", "V", "W", "X", "Y", "Z", "[", "BACKSLASH", "]", "^", "_",
    "BACKTICK", "a", "b", "c", "d", "e", "f", "g", "h", "i", "j", "k", "l", "m", "n", "o",
    "p", "q", "r", "s", "t", "u", "v", "w", "x", "y", "z", "{", "|", "}", "~">>

AsciiCode ==
  LET CodeOf(chars) == [c \in {chars[i] : i \in 1..Len(chars)} |->
                          31 + (CHOOSE i \in 1..Len(chars) : chars[i] = c)]
  IN CodeOf(AsciiChars)

\* The string whose characters are cs (a tuple of one-character strings).
S(cs) == [i \in 1..Len(cs) |-> AsciiCode[cs[i]]]

\* char::is_whitespace, on ASCII: space, \t, \n, \v, \f, \r.
IsWhitespace(c) == c = 32 \/ (c >= 9 /\ c <= 13)

\* char::to_ascii_lowercase / to_ascii_uppercase (str::to_lowercase and
\* str::to_uppercase agree with them on ASCII text).
LowerChar(c) == IF c >= 65 /\ c <= 90 THEN c + 32 ELSE c
UpperChar(c) == IF c >= 97 /\ c <= 122 THEN c - 32 ELSE c

to_lowercase(s) == [i \in 1..Len(s) |-> LowerChar(s[i])]
to_uppercase(s) == [i \in 1..Len(s) |-> UpperChar(s[i])]

eq_ignore_ascii_case(a, b) == to_lowercase(a) = to_lowercase(b)

starts_with(s, p) == Len(p) <= Len(s) /\ SubSeq(s, 1, Len(p)) = p
ends_with(s, p) == Len(p) <= Len(s) /\ SubSeq(s, Len(s) - Len(p) + 1, Len(s)) = p

\* The zero-based byte offsets at which p occurs in s.
Occurrences(s, p) ==
  {i \in 0..(Len(s) - Len(p)) : SubSeq(s, i + 1, i + Len(p)) = p}

Min(X) == CHOOSE x \in X : \A y \in X : x <= y
Max(X) == CHOOSE x \in X : \A y \in X : x >= y

None == [some |-> FALSE, v |-> 0]
Some(x) == [some |-> TRUE, v |-> x]

\* str::contains, str::find (first occurrence), str::rfind (last occurrence).
contains(s, p) == Occurrences(s, p) # {}
find(s, p) ==
  LET First(at) == IF at = {} THEN None ELSE Some(Min(at)) IN First(Occurrences(s, p))
rfind(s, p) ==
  LET Last(at) == IF at = {} THEN None ELSE Some(Max(at)) IN Last(Occurrences(s, p))

\* str::trim: strip leading and trailing whitespace.
RECURSIVE trim_start(_)
trim_start(s) ==
  IF s # <<>> /\ IsWhitespace(Head(s)) THEN trim_start(Tail(s)) ELSE s

RECURSIVE trim_end(_)
trim_end(s) ==
  IF s # <<>> /\ IsWhitespace(s[Len(s)]) THEN trim_end(SubSeq(s, 1, Len(s) - 1)) ELSE s

trim(s) == trim_end(trim_start(s))

\* str::split(ch): the pieces of s between the occurrences of the character
\* ch, empty pieces included (n occurrences give n + 1 pieces).
RECURSIVE SplitFrom(_, _, _, _)
SplitFrom(s, ch, i, cur) ==
  IF i > Len(s) THEN <<cur>>
  ELSE IF s[i] = ch THEN <<cur>> \o SplitFrom(s, ch, i + 1, <<>>)
  ELSE SplitFrom(s, ch, i + 1, Append(cur, s[i]))

split(s, ch) == SplitFrom(s, ch, 1, <<>>)

\* str::split_whitespace: the maximal runs of non-whitespace characters.
RECURSIVE SplitWsFrom(_, _, _)
SplitWsFrom(s, i, cur) ==
  IF i > Len(s) THEN (IF cur = <<>> THEN <<>> ELSE <<cur>>)
  ELSE IF IsWhitespace(s[i])
       THEN (IF cur = <<>> THEN <<>> ELSE <<cur>>) \o SplitWsFrom(s, i + 1, <<>>)
       ELSE SplitWsFrom(s, i + 1, Append(cur, s[i]))

split_whitespace(s) == SplitWsFrom(s, 1, <<>>)

\* [&str]::join(sep).
RECURSIVE join(_, _)
join(parts, sep) ==
  IF parts = <<>> THEN <<>>
  ELSE IF Len(parts) = 1 THEN parts[1]
  ELSE parts[1] \o sep \o join(Tail(parts), sep)

\* Ord for str: byte-wise lexicographic comparison, a proper prefix first.
RECURSIVE StrLe(_, _)
StrLe(a, b) ==
  IF a = <<>> THEN TRUE
  ELSE IF b = <<>> THEN FALSE
  ELSE IF Head(a) < Head(b) THEN TRUE
  ELSE IF Head(a) > Head(b) THEN FALSE
  ELSE StrLe(Tail(a), Tail(b))

\* i64::to_string: the decimal rendering, with a leading '-' when negative.
RECURSIVE DecDigits(_)
DecDigits(n) ==
  IF n < 10 THEN <<48 + n>> ELSE Append(DecDigits(n \div 10), 48 + (n % 10))

to_string(n) == IF n < 0 THEN <<45>> \o DecDigits(0 - n) ELSE DecDigits(n)

(***************************************************************************)
(* Results                                                                 *)
(***************************************************************************)

\* Ok(v), Err(e) and a panic, each with the page numbers handed to
\* Database::read_page so far, in call order (reads is bookkeeping of the
\* model: the program keeps no such log).
Ok(v, reads) == [tag |-> "Ok", v |-> v, reads |-> reads]
Err(e, reads) == [tag |-> "Err", v |-> e, reads |-> reads]
Panic(e, reads) == [tag |-> "Panic", v |-> e, reads |-> reads]

\* What `r?` hands to the caller when r is not Ok, after the caller itself
\* read the pages in before.
Propagate(r, before) == [r EXCEPT !.reads = before \o r.reads]

(***************************************************************************)
(* Varint codec (db/varint.rs)                                             *)
(***************************************************************************)

VARINT_MAX_BYTES == 9
VARINT_CONTINUATION_BIT == 128
VARINT_DATA_MASK == 127

\* data[pos] for a zero-based pos.
B(data, pos) == data[pos + 1]

\* DataBits with a mask of six bits.
DataBits_SixBits(byte) == byte % 64

\* byte & VARINT_DATA_MASK and byte & VARINT_CONTINUATION_BIT, for a byte.
DataBits(byte) == byte % (VARINT_DATA_MASK + 1)
ContinuationBit(byte) == (byte \div VARINT_CONTINUATION_BIT) * VARINT_CONTINUATION_BIT

\* A u64 or an i64 of the program is its eight bytes, the most significant
\* first (the order of from_be_bytes), so that all 64 bits are kept.
Zero64 == [i \in 1..8 |-> 0]

\* The value of a byte read as i8.
AsI8(b) == IF b >= 128 THEN b - 256 ELSE b

\* The number big-endian bytes stand for, read as an unsigned integer
\* (`as usize` of a u64) and as a two's-complement one (`as i64`).
RECURSIVE Unsigned(_)
Unsigned(bytes) ==
  IF bytes = <<>> THEN 0
  ELSE Unsigned(SubSeq(bytes, 1, Len(bytes) - 1)) * 256 + bytes[Len(bytes)]

RECURSIVE Signed(_)
Signed(bytes) ==
  IF Len(bytes) = 1 THEN AsI8(bytes[1])
  ELSE Signed(SubSeq(bytes, 1, Len(bytes) - 1)) * 256 + bytes[Len(bytes)]

\* (value << 7) | bits for bits below 128, and (value << 8) | byte, on a u64:
\* the bits shifted out at the top are lost.
Shl7Or(value, bits) ==
  [i \in 1..8 |-> (value[i] % 2) * 128 + (IF i < 8 THEN value[i + 1] \div 2 ELSE bits)]
Shl8Or(value, byte) == [i \in 1..8 |-> IF i < 8 THEN value[i + 1] ELSE byte]

\* read_varint's loop with the ninth byte handled like the eight before it:
\* what the checks of the codec must tell from the loop below.
RECURSIVE VarintLoop_NinthBySeven(_, _, _, _)
VarintLoop_NinthBySeven(data, pos, i, value) ==
  LET byte == B(data, pos + i) IN
  IF i = VARINT_MAX_BYTES - 1 \/ ContinuationBit(byte) = 0
  THEN [value |-> Shl7Or(value, DataBits(byte)), bytes_read |-> i + 1]
  ELSE VarintLoop_NinthBySeven(data, pos, i + 1, Shl7Or(value, DataBits(byte)))

\* The body of read_varint's loop from iteration i on, with the value
\* accumulated so far.
RECURSIVE VarintLoop(_, _, _, _)
VarintLoop(data, pos, i, value) ==
  LET byte == B(data, pos + i) IN
  IF i = VARINT_MAX_BYTES - 1
  THEN [value |-> Shl8Or(value, byte), bytes_read |-> i + 1]
  ELSE IF ContinuationBit(byte) = 0
       THEN [value |-> Shl7Or(value, DataBits(byte)), bytes_read |-> i + 1]
       ELSE VarintLoop(data, pos, i + 1, Shl7Or(value, DataBits(byte)))

\* read_varint: the value, a u64, and the number of bytes read.
read_varint(data, pos) == VarintLoop(data, pos, 0, Zero64)

(***************************************************************************)
(* Serial types and records (db/page/record.rs)                            *)
(***************************************************************************)

get_column_size(serial_type) ==
  CASE serial_type = 0 -> 0
    [] serial_type = 1 -> 1
    [] serial_type = 2 -> 2
    [] serial_type = 3 -> 3
    [] serial_type = 4 -> 4
    [] serial_type = 5 -> 6
    [] serial_type = 6 -> 8
    [] serial_type = 7 -> 8
    [] serial_type = 8 -> 0
    [] serial_type = 9 -> 0
    [] serial_type \in {10, 11} -> 0
    [] serial_type >= 12 /\ serial_type % 2 = 0 -> (serial_type - 12) \div 2
    [] serial_type >= 13 /\ serial_type % 2 = 1 -> (serial_type - 13) \div 2
    [] OTHER -> 0

\* &data[from..to], zero-based and half-open.
Slice(data, from, to) == SubSeq(data, from + 1, to)

\* String::from_utf8_lossy on bytes that are ASCII: the same codes.
from_utf8_lossy(bytes) == bytes

\* extract_text_from_serial_type refusing a text that ends where data ends.
extract_text_from_serial_type_ShortOfEnd(serial_type, data, pos) ==
  IF serial_type >= 13 /\ serial_type % 2 = 1
  THEN LET text_size == (serial_type - 13) \div 2 IN
       IF pos + text_size >= Len(data) THEN None
       ELSE Some(from_utf8_lossy(Slice(data, pos, pos + text_size)))
  ELSE None

extract_text_from_serial_type(serial_type, data, pos) ==
  IF serial_type >= 13 /\ serial_type % 2 = 1
  THEN LET text_size == (serial_type - 13) \div 2 IN
       IF pos + text_size > Len(data) THEN None
       ELSE Some(from_utf8_lossy(Slice(data, pos, pos + text_size)))
  ELSE None

\* `value as i64` for a signed integer of fewer bytes: the sign bit fills
\* the bytes above.
SignExtend(bytes) ==
  [i \in 1..8 |-> IF i <= 8 - Len(bytes) THEN (IF bytes[1] >= 128 THEN 255 ELSE 0)
                  ELSE bytes[i - (8 - Len(bytes))]]

\* a | b on two bytes, and on two integers of as many bytes.
RECURSIVE ByteOr(_, _)
ByteOr(a, b) ==
  IF a = 0 THEN b
  ELSE IF b = 0 THEN a
  ELSE 2 * ByteOr(a \div 2, b \div 2) + (IF a % 2 = 1 \/ b % 2 = 1 THEN 1 ELSE 0)

\* x & y for x | y.
BitOr_And(x, y) == [i \in 1..Len(x) |-> x[i] + y[i] - ByteOr(x[i], y[i])]

BitOr(x, y) == [i \in 1..Len(x) |-> ByteOr(x[i], y[i])]

\* extract_int_from_serial_type: Some of an i64, or None.
extract_int_from_serial_type(serial_type, data, pos) ==
  CASE serial_type = 0 -> Some(Zero64)
    [] serial_type = 1 ->
         IF pos >= Len(data) THEN None ELSE Some(SignExtend(<<B(data, pos)>>))
    [] serial_type = 2 ->
         IF pos + 2 > Len(data) THEN None
         ELSE Some(SignExtend(<<B(data, pos), B(data, pos + 1)>>))
    [] serial_type = 3 ->
         IF pos + 3 > Len(data) THEN None
         ELSE LET value == <<0, B(data, pos), B(data, pos + 1), B(data, pos + 2)>>
              IN Some(SignExtend(IF ContinuationBit(B(data, pos)) # 0
                                 THEN BitOr(value, <<255, 0, 0, 0>>)
                                 ELSE value))
    [] serial_type = 4 ->
         IF pos + 4 > Len(data) THEN None
         ELSE Some(SignExtend(<<B(data, pos), B(data, pos + 1), B(data, pos + 2),
                                B(data, pos + 3)>>))
    [] serial_type = 5 ->
         IF pos + 6 > Len(data) THEN None
         ELSE LET bytes == <<0, 0, B(data, pos), B(data, pos + 1), B(data, pos + 2),
                             B(data, pos + 3), B(data, pos + 4), B(data, pos + 5)>>
              IN Some(IF ContinuationBit(B(data, pos)) # 0
                      THEN BitOr(bytes, <<255, 255, 0, 0, 0, 0, 0, 0>>)
                      ELSE bytes)
    [] serial_type = 6 ->
         IF pos + 8 > Len(data) THEN None
         ELSE Some(Slice(data, pos, pos + 8))
    [] serial_type = 8 -> Some(Zero64)
    [] serial_type = 9 -> Some(Shl8Or(Zero64, 1))
    [] OTHER -> None

\* The `while pos < header_end` loop of Record::parse: the serial types read
\* from pos on and the position after the last one.
RECURSIVE SerialTypesLoop(_, _, _, _)
SerialTypesLoop(page, pos, header_end, serial_types) ==
  IF pos < header_end
  THEN LET st == read_varint(page, pos) IN
       SerialTypesLoop(page, pos + st.bytes_read, header_end,
                       Append(serial_types, Unsigned(st.value)))
  ELSE [serial_types |-> serial_types, pos |-> pos]

\* The running cursor of Record::parse: column_offsets[i] is the sum of the
\* sizes of the columns before i, added to offset.
RECURSIVE ColumnOffsets(_, _)
ColumnOffsets(serial_types, offset) ==
  IF serial_types = <<>> THEN <<>>
  ELSE <<offset>> \o ColumnOffsets(Tail(serial_types),
                                   offset + get_column_size(Head(serial_types)))

\* SumSizes with no byte counted for a text column.
RECURSIVE SumSizes_NoText(_)
SumSizes_NoText(serial_types) ==
  IF serial_types = <<>> THEN 0
  ELSE (IF Head(serial_types) >= 13 /\ Head(serial_types) % 2 = 1 THEN 0
        ELSE get_column_size(Head(serial_types)))
       + SumSizes_NoText(Tail(serial_types))

RECURSIVE SumSizes(_)
SumSizes(serial_types) ==
  IF serial_types = <<>> THEN 0
  ELSE get_column_size(Head(serial_types)) + SumSizes(Tail(serial_types))

\* Record::parse: the record of the leaf-table cell at cell_offset, and the
\* number of bytes consumed.  column_offsets are relative to data.
Record_parse(page, cell_offset) ==
  LET Columns(rowid, serial_types, pos, offset) ==
        [serial_types |-> serial_types,
         column_offsets |-> ColumnOffsets(serial_types, 0),
         data |-> Slice(page, pos, offset),
         rowid |-> rowid,
         consumed |-> offset - cell_offset]
      Header(rowid, hdr) ==
        Columns(rowid, hdr.serial_types, hdr.pos, hdr.pos + SumSizes(hdr.serial_types))
      HeaderSize(rowid, record_start, header_size) ==
        Header(rowid, SerialTypesLoop(page, record_start + header_size.bytes_read,
                                      record_start + Unsigned(header_size.value), <<>>))
      RecordStart(rowid, record_start) ==
        HeaderSize(rowid, record_start, read_varint(page, record_start))
      Rowid(pos, rowid) == RecordStart(Signed(rowid.value), pos + rowid.bytes_read)
      Size(pos) == Rowid(pos, read_varint(page, pos))
  IN Size(cell_offset + read_varint(page, cell_offset).bytes_read)

\* usize::MAX, the marker select_columns_with_filter uses for the rowid.
USIZE_MAX == -1

Record_read_string(record, column_index) ==
  IF column_index = USIZE_MAX THEN Some(to_string(record.rowid))
  ELSE IF column_index >= Len(record.serial_types) THEN None
  ELSE LET serial_type == record.serial_types[column_index + 1]
           offset == record.column_offsets[column_index + 1]
           Read(text, int_val) ==
             IF text.some THEN text
             ELSE IF int_val.some THEN Some(to_string(Signed(int_val.v)))
             ELSE None
       IN Read(extract_text_from_serial_type(serial_type, record.data, offset),
               extract_int_from_serial_type(serial_type, record.data, offset))

Record_read_int(record, column_index) ==
  IF column_index >= Len(record.serial_types) THEN None
  ELSE extract_int_from_serial_type(record.serial_types[column_index + 1],
                                    record.data,
                                    record.column_offsets[column_index + 1])

\* Option<String>::unwrap_or_default.
unwrap_or_default(opt) == IF opt.some THEN opt.v ELSE <<>>

Record_read_strings(record, column_indices) ==
  [i \in 1..Len(column_indices) |->
     unwrap_or_default(Record_read_string(record, column_indices[i]))]

\* The `while pos < header_end && pos < page.len()` loop of parse_index_cell.
RECURSIVE IndexSerialTypesLoop(_, _, _, _)
IndexSerialTypesLoop(page, pos, header_end, serial_types) ==
  IF pos < header_end /\ pos < Len(page)
  THEN LET st == read_varint(page, pos) IN
       IndexSerialTypesLoop(page, pos + st.bytes_read, header_end,
                            Append(serial_types, Unsigned(st.value)))
  ELSE [serial_types |-> serial_types, pos |-> pos]

\* The loop of parse_index_cell over the indexed columns: the values read
\* and the position after them.
RECURSIVE IndexValuesLoop(_, _, _, _)
IndexValuesLoop(page, serial_types, pos, values) ==
  IF serial_types = <<>> THEN [values |-> values, pos |-> pos]
  ELSE LET serial_type == Head(serial_types)
           size == get_column_size(serial_type)
           Value(text, int) == IF text.some THEN text.v
                               ELSE IF int.some THEN to_string(Signed(int.v))
                               ELSE <<>>
       IN IF pos + size > Len(page) THEN [values |-> values, pos |-> pos]
          ELSE IndexValuesLoop(page, Tail(serial_types), pos + size,
                 Append(values,
                        Value(extract_text_from_serial_type(serial_type, page, pos),
                              extract_int_from_serial_type(serial_type, page, pos))))

\* parse_index_cell: the indexed values and the rowid of a leaf-index cell.
parse_index_cell(page, cell_offset) ==
  LET Parsed(values, int) ==
        [values |-> values, rowid |-> IF int.some THEN Signed(int.v) ELSE 0]
      Values(rowid_serial_type, vals) ==
        Parsed(vals.values,
               IF rowid_serial_type.some
               THEN extract_int_from_serial_type(rowid_serial_type.v, page, vals.pos)
               ELSE None)
      \* serial_types.pop(), then the loop over what is left
      Header(serial_types, pos) ==
        LET n == Len(serial_types) IN
        Values(IF n = 0 THEN None ELSE Some(serial_types[n]),
               IndexValuesLoop(page, IF n = 0 THEN <<>> ELSE SubSeq(serial_types, 1, n - 1),
                               pos, <<>>))
      SerialTypes(hdr) == Header(hdr.serial_types, hdr.pos)
      HeaderSize(record_start, header_size) ==
        SerialTypes(IndexSerialTypesLoop(page, record_start + header_size.bytes_read,
                                         record_start + Unsigned(header_size.value), <<>>))
      RecordStart(record_start) ==
        HeaderSize(record_start, read_varint(page, record_start))
  IN RecordStart(cell_offset + read_varint(page, cell_offset).bytes_read)

(***************************************************************************)
(* Pages (db/page/page.rs)                                                 *)
(***************************************************************************)

INTERIOR_INDEX_BTREE_PAGE == 2
INTERIOR_TABLE_BTREE_PAGE == 5
LEAF_INDEX_BTREE_PAGE == 10
LEAF_TABLE_BTREE_PAGE == 13

PAGE1_HEADER_OFFSET == 100
CELL_COUNT_OFFSET == 3
PAGE_SIZE_OFFSET == 16

\* u16::from_be_bytes and u32::from_be_bytes of the bytes at pos.
U16At(data, pos) == B(data, pos) * 256 + B(data, pos + 1)
U32At(data, pos) ==
  ((B(data, pos) * 256 + B(data, pos + 1)) * 256 + B(data, pos + 2)) * 256
  + B(data, pos + 3)

\* Page::new: a page of one of the four kinds, or a panic.
Page_new(data, page_num) ==
  LET header_offset == IF page_num = 1 THEN PAGE1_HEADER_OFFSET ELSE 0
      page_type_byte == B(data, header_offset)
  IN CASE page_type_byte = INTERIOR_INDEX_BTREE_PAGE ->
            Ok([data |-> data, header_offset |-> header_offset,
                page_type |-> "InteriorIndex"], <<>>)
       [] page_type_byte = INTERIOR_TABLE_BTREE_PAGE ->
            Ok([data |-> data, header_offset |-> header_offset,
                page_type |-> "InteriorTable"], <<>>)
       [] page_type_byte = LEAF_INDEX_BTREE_PAGE ->
            Ok([data |-> data, header_offset |-> header_offset,
                page_type |-> "LeafIndex"], <<>>)
       [] page_type_byte = LEAF_TABLE_BTREE_PAGE ->
            Ok([data |-> data, header_offset |-> header_offset,
                page_type |-> "LeafTable"], <<>>)
       [] OTHER -> Panic("Unknown page type", <<>>)

is_leaf(page) == page.page_type \in {"LeafTable", "LeafIndex"}
is_interior(page) == page.page_type \in {"InteriorTable", "InteriorIndex"}

cell_count(page) == U16At(page.data, page.header_offset + CELL_COUNT_OFFSET)

cell_offsets(page) ==
  LET num_cells == cell_count(page)
      header_size == IF is_interior(page) THEN 12 ELSE 8
      array_offset == page.header_offset + header_size
  IN [i \in 1..num_cells |-> U16At(page.data, array_offset + (i - 1) * 2)]

rightmost_pointer(page) ==
  IF is_interior(page) THEN Some(U32At(page.data, page.header_offset + 8))
  ELSE None

\* Page::parse_interior_cell: (left_child, key) of an interior-table cell.
parse_interior_cell(page, cell_offset) ==
  [left_child |-> U32At(page.data, cell_offset),
   key |-> Signed(read_varint(page.data, cell_offset + 4).value)]

\* Page::parse_interior_index_cell: Ok (left_child, key), the key being the
\* text of the first column, or Err.
parse_interior_index_cell(page, cell_offset) ==
  LET left_child == U32At(page.data, cell_offset)
      Key(serial_type, pos) ==
        IF serial_type >= 13 /\ serial_type % 2 = 1
        THEN LET text_size == (serial_type - 13) \div 2 IN
             IF pos + text_size <= Len(page.data)
             THEN [ok |-> TRUE, left_child |-> left_child,
                   key |-> from_utf8_lossy(Slice(page.data, pos, pos + text_size))]
             ELSE [ok |-> FALSE, left_child |-> left_child, key |-> <<>>]
        ELSE [ok |-> FALSE, left_child |-> left_child, key |-> <<>>]
      HeaderSize(record_start, header_size) ==
        Key(Unsigned(read_varint(page.data,
                             record_start + header_size.bytes_read).value),
            record_start + Unsigned(header_size.value))
      RecordStart(record_start) ==
        HeaderSize(record_start, read_varint(page.data, record_start))
  IN RecordStart(cell_offset + 4 + read_varint(page.data, cell_offset + 4).bytes_read)

(***************************************************************************)
(* Pager (db/database.rs)                                                  *)
(***************************************************************************)

\* Database::open on the file with these bytes.  overflow_checks is the
\* build's choice for integer overflow (on: panic, as in a debug build; off:
\* wrap, as in a release build); it is no field of the program's Database.
Database_open(file, overflow_checks) ==
  IF PAGE_SIZE_OFFSET + 2 > Len(file) THEN Err("read_exact", <<>>)
  ELSE Ok([file |-> file, page_size |-> U16At(file, PAGE_SIZE_OFFSET),
           overflow_checks |-> overflow_checks], <<>>)

\* Database::read_page.  For page_num = 0 the subtraction `page_num as u64 - 1`
\* overflows: a panic with overflow checks on; without them the offset wraps to
\* 2^64 - page_size, which no file reaches, so the seek or the read fails.
read_page(db, page_num) ==
  IF page_num = 0
  THEN IF db.overflow_checks THEN Panic("attempt to subtract with overflow", <<0>>)
       ELSE Err("Failed to read page", <<0>>)
  ELSE LET page_offset == (page_num - 1) * db.page_size IN
       IF page_offset + db.page_size > Len(db.file)
       THEN Err("Failed to read page", <<page_num>>)
       ELSE Ok(Slice(db.file, page_offset, page_offset + db.page_size), <<page_num>>)

LoadPage_page_data(page_num, page_data) ==
  IF page_data.tag # "Ok" THEN page_data
  ELSE Propagate(Page_new(page_data.v, page_num), page_data.reads)

\* read_page followed by Page::new, as every traversal starts.
LoadPage(db, page_num) ==
  LoadPage_page_data(page_num, read_page(db, page_num))

\* The number of whole pages of the file: no call chain over distinct pages
\* is longer, so a recursion that goes deeper is on a cycle and never returns.
NumPages(db) == IF db.page_size = 0 THEN 0 ELSE Len(db.file) \div db.page_size

\* A recursion deeper than the file has pages: the traversal is on a cycle
\* of pages and recurses until the stack is exhausted.
Overflow(reads) == [tag |-> "Overflow", v |-> "stack overflow", reads |-> reads]

(***************************************************************************)
(* B-tree traversals (db/schema/schema.rs)                                 *)
(***************************************************************************)

\* child_pages without the rightmost pointer: what traverse_btree_table
\* would visit if it forgot the last child of every interior page.
TableChildPages_NoRightmost(page) ==
  LET cells == cell_offsets(page)
      lefts == [i \in 1..Len(cells) |-> parse_interior_cell(page, cells[i]).left_child]
  IN SelectSeq(lefts, LAMBDA c : c # 0)

\* child_pages without the `!= 0` tests: what traverse_btree_table would
\* visit if it followed every pointer.
TableChildPages_WithZero(page) ==
  LET cells == cell_offsets(page)
      rightmost == rightmost_pointer(page)
  IN [i \in 1..Len(cells) |-> parse_interior_cell(page, cells[i]).left_child]
     \o (IF rightmost.some THEN <<rightmost.v>> ELSE <<>>)

\* The records of a leaf page pushed last cell first.
LeafRecords_Reversed(page) ==
  LET cells == cell_offsets(page) IN
  [i \in 1..Len(cells) |->
     [page_data |-> page.data, offset |-> cells[Len(cells) + 1 - i]]]

\* The child_pages of traverse_btree_table on an interior page: the left
\* child of every cell, in cell order, then the rightmost pointer, each only
\* when it is not 0.
TableChildPages(page) ==
  LET cells == cell_offsets(page)
      lefts == [i \in 1..Len(cells) |-> parse_interior_cell(page, cells[i]).left_child]
      rightmost == rightmost_pointer(page)
  IN SelectSeq(lefts, LAMBDA c : c # 0)
     \o (IF rightmost.some /\ rightmost.v # 0 THEN <<rightmost.v>> ELSE <<>>)

\* The records of a leaf page as traverse_btree_table pushes them: a copy of
\* the page's bytes with every cell offset.
LeafRecords(page) ==
  LET cells == cell_offsets(page) IN
  [i \in 1..Len(cells) |-> [page_data |-> page.data, offset |-> cells[i]]]

RECURSIVE traverse_btree_table(_, _, _)
RECURSIVE TraverseAll(_, _, _, _)

traverse_btree_table_p(db, depth, p) ==
  IF p.tag # "Ok" THEN p
  ELSE IF is_leaf(p.v) THEN Ok(LeafRecords(p.v), p.reads)
  ELSE TraverseAll(db, TableChildPages(p.v), depth - 1, Ok(<<>>, p.reads))

\* traverse_btree_table: Ok with the records pushed by this call.  depth is
\* the number of nested calls still allowed (see NumPages).
traverse_btree_table(db, page_num, depth) ==
  IF depth = 0 THEN Overflow(<<>>)
  ELSE traverse_btree_table_p(db, depth, LoadPage(db, page_num))

TraverseAll_r(db, child_pages, depth, acc, r) ==
  IF r.tag # "Ok" THEN Propagate(r, acc.reads)
  ELSE TraverseAll(db, Tail(child_pages), depth,
                   Ok(acc.v \o r.v, acc.reads \o r.reads))

\* `for child_page in child_pages { traverse_btree_table(..)?; }`
TraverseAll(db, child_pages, depth, acc) ==
  IF child_pages = <<>> THEN acc
  ELSE TraverseAll_r(db, child_pages, depth, acc, traverse_btree_table(db,
      Head(child_pages), depth))

\* LeafIndexMatches without the comparison with search_value.
LeafIndexMatches_AnyValue(page, search_value) ==
  LET Rowids(hits) == [i \in 1..Len(hits) |-> hits[i].rowid]
      Cells(cells) ==
        Rowids(SelectSeq([i \in 1..Len(cells) |-> parse_index_cell(page.data, cells[i])],
                         LAMBDA c : c.values # <<>>))
  IN Cells(cell_offsets(page))

\* The rowids search_index_btree collects on a leaf page: those of the cells
\* whose first value equals search_value, in cell order.
LeafIndexMatches(page, search_value) ==
  LET Rowids(hits) == [i \in 1..Len(hits) |-> hits[i].rowid]
      Cells(cells) ==
        Rowids(SelectSeq([i \in 1..Len(cells) |-> parse_index_cell(page.data, cells[i])],
                         LAMBDA c : c.values # <<>> /\ c.values[1] = search_value))
  IN Cells(cell_offsets(page))

\* IndexCellChildren with search_value < key for search_value <= key.
IndexCellChildren_Less(page, cells, i, search_value) ==
  LET rightmost == rightmost_pointer(page)
      left_child == parse_interior_cell(page, cells[i]).left_child
      Parsed(c) ==
        IF c.ok
        THEN (IF StrLe(search_value, c.key) /\ search_value # c.key
              THEN <<c.left_child>> ELSE <<>>)
             \o (IF i = Len(cells) /\ StrLe(c.key, search_value) /\ rightmost.some
                 THEN <<rightmost.v>> ELSE <<>>)
        ELSE (IF left_child # 0 THEN <<left_child>> ELSE <<>>)
  IN Parsed(parse_interior_index_cell(page, cells[i]))

\* What the i-th cell of an interior page adds to children_to_search.
IndexCellChildren(page, cells, i, search_value) ==
  LET rightmost == rightmost_pointer(page)
      left_child == parse_interior_cell(page, cells[i]).left_child
      Parsed(c) ==
        IF c.ok
        THEN (IF StrLe(search_value, c.key) THEN <<c.left_child>> ELSE <<>>)
             \o (IF i = Len(cells) /\ StrLe(c.key, search_value) /\ rightmost.some
                 THEN <<rightmost.v>> ELSE <<>>)
        ELSE (IF left_child # 0 THEN <<left_child>> ELSE <<>>)
  IN Parsed(parse_interior_index_cell(page, cells[i]))

RECURSIVE ConcatAll(_)
ConcatAll(seqs) == IF seqs = <<>> THEN <<>> ELSE Head(seqs) \o ConcatAll(Tail(seqs))

\* The children_to_search of search_index_btree on an interior page.
IndexChildrenToSearch(page, search_value) ==
  LET rightmost == rightmost_pointer(page)
      Chosen(chosen) == IF chosen = <<>> /\ rightmost.some THEN <<rightmost.v>> ELSE chosen
      Cells(cells) ==
        Chosen(ConcatAll([i \in 1..Len(cells) |->
                            IndexCellChildren(page, cells, i, search_value)]))
  IN Cells(cell_offsets(page))

RECURSIVE search_index_btree(_, _, _, _)
RECURSIVE SearchAll(_, _, _, _, _)

search_index_btree_p(db, search_value, depth, p) ==
  IF p.tag # "Ok" THEN p
  ELSE IF is_leaf(p.v) THEN Ok(LeafIndexMatches(p.v, search_value), p.reads)
  ELSE SearchAll(db, IndexChildrenToSearch(p.v, search_value), search_value,
                 depth - 1, Ok(<<>>, p.reads))

\* search_index_btree: Ok with the rowids found under page_num.
search_index_btree(db, page_num, search_value, depth) ==
  IF depth = 0 THEN Overflow(<<>>)
  ELSE search_index_btree_p(db, search_value, depth, LoadPage(db, page_num))

SearchAll_r(db, children, search_value, depth, acc, r) ==
  IF r.tag # "Ok" THEN Propagate(r, acc.reads)
  ELSE SearchAll(db, Tail(children), search_value, depth,
                 Ok(acc.v \o r.v, acc.reads \o r.reads))

\* SearchAll with the last child searched first.
SearchAll_LastFirst(db, children, search_value, depth, acc) ==
  IF children = <<>> THEN acc
  ELSE SearchAll_r(db, <<children[Len(children)]>> \o SubSeq(children, 1, Len(children) - 1),
                   search_value, depth, acc,
                   search_index_btree(db, children[Len(children)], search_value, depth))

SearchAll(db, children, search_value, depth, acc) ==
  IF children = <<>> THEN acc
  ELSE SearchAll_r(db, children, search_value, depth, acc, search_index_btree(db,
      Head(children), search_value, depth))

\* RowidChild with target_rowid < key for target_rowid <= key.
RowidChild_Strict(page, target_rowid) ==
  LET Cells(cells) ==
        LET First(hits) ==
              IF hits # {} THEN Some(parse_interior_cell(page, cells[Min(hits)]).left_child)
              ELSE rightmost_pointer(page)
        IN First({i \in 1..Len(cells) :
                    target_rowid < parse_interior_cell(page, cells[i]).key})
  IN Cells(cell_offsets(page))

\* The child find_record_by_rowid descends into on an interior page: the
\* left child of the first cell with target_rowid <= key, else the rightmost.
RowidChild(page, target_rowid) ==
  LET Cells(cells) ==
        LET First(hits) ==
              IF hits # {} THEN Some(parse_interior_cell(page, cells[Min(hits)]).left_child)
              ELSE rightmost_pointer(page)
        IN First({i \in 1..Len(cells) :
                    target_rowid <= parse_interior_cell(page, cells[i]).key})
  IN Cells(cell_offsets(page))

\* The leaf-page search of find_record_by_rowid.
LeafFind(page, target_rowid) ==
  LET Cells(cells) ==
        LET First(hits) ==
              IF hits = {} THEN None
              ELSE Some([page_data |-> page.data, offset |-> cells[Min(hits)]])
        IN First({i \in 1..Len(cells) :
                    Record_parse(page.data, cells[i]).rowid = target_rowid})
  IN Cells(cell_offsets(page))

RECURSIVE find_record_by_rowid(_, _, _, _)

find_record_by_rowid_child(db, target_rowid, depth, p, child) ==
  IF child.some
  THEN Propagate(find_record_by_rowid(db, child.v, target_rowid, depth - 1), p.reads)
  ELSE Ok(None, p.reads)

find_record_by_rowid_p(db, target_rowid, depth, p) ==
  IF p.tag # "Ok" THEN p
  ELSE IF is_leaf(p.v) THEN Ok(LeafFind(p.v, target_rowid), p.reads)
  ELSE find_record_by_rowid_child(db, target_rowid, depth, p, RowidChild(p.v,
      target_rowid))

find_record_by_rowid(db, page_num, target_rowid, depth) ==
  IF depth = 0 THEN Overflow(<<>>)
  ELSE find_record_by_rowid_p(db, target_rowid, depth, LoadPage(db, page_num))

(***************************************************************************)
(* Schema catalog (db/schema/schema.rs)                                    *)
(***************************************************************************)

SCHEMA_TYPE_COLUMN == 0
SCHEMA_TBL_NAME_COLUMN == 2
SCHEMA_ROOTPAGE_COLUMN == 3
SCHEMA_SQL_COLUMN == 4

kTable == S(<<"t", "a", "b", "l", "e">>)
kIndex == S(<<"i", "n", "d", "e", "x">>)
kSqlitePrefix == S(<<"s", "q", "l", "i", "t", "e", "_">>)

\* SchemaEntry::from_record.
SchemaEntry_from_record(record) ==
  LET Entry(entry_type, tbl_name, rootpage, sql_text) ==
        IF ~entry_type.some THEN None
        ELSE IF ~tbl_name.some THEN None
        ELSE Some([entry_type |-> entry_type.v,
                   tbl_name |-> tbl_name.v,
                   rootpage |-> IF rootpage.some THEN Unsigned(SubSeq(rootpage.v, 5, 8))
                                ELSE 0,
                   sql |-> unwrap_or_default(sql_text)])
  IN Entry(Record_read_string(record, SCHEMA_TYPE_COLUMN),
           Record_read_string(record, SCHEMA_TBL_NAME_COLUMN),
           Record_read_int(record, SCHEMA_ROOTPAGE_COLUMN),
           Record_read_string(record, SCHEMA_SQL_COLUMN))

is_user_table(e) == e.entry_type = kTable /\ ~starts_with(e.tbl_name, kSqlitePrefix)
is_index(e) == e.entry_type = kIndex

\* The entries read_schema builds from the cells of a page.
SchemaEntries(page) ==
  LET Kept(kept) == [i \in 1..Len(kept) |-> kept[i].v]
      Cells(cells) ==
        Kept(SelectSeq([i \in 1..Len(cells) |->
                          SchemaEntry_from_record(Record_parse(page.data, cells[i]))],
                       LAMBDA e : e.some))
  IN Cells(cell_offsets(page))

read_schema_p(p) ==
  IF p.tag # "Ok" THEN p ELSE Ok(SchemaEntries(p.v), p.reads)

\* read_schema.  (Page::new is not followed by `?` in the source: it returns
\* no Result, and its panic unwinds through read_schema like any other.)
read_schema(db) ==
  read_schema_p(LoadPage(db, 1))

read_table_names_user(entries, user) ==
  Ok([i \in 1..Len(user) |-> user[i].tbl_name], entries.reads)

read_table_names_entries(entries) ==
  IF entries.tag # "Ok" THEN entries
  ELSE read_table_names_user(entries, SelectSeq(entries.v, is_user_table))

read_table_names_db(db) ==
  IF db.tag # "Ok" THEN db
  ELSE read_table_names_entries(read_schema(db.v))

\* read_table_names.
read_table_names(file, overflow_checks) ==
  read_table_names_db(Database_open(file, overflow_checks))

find_table_found(entries, found) ==
  IF found = <<>> THEN Err("Table not found", entries.reads)
  ELSE Ok(found[1], entries.reads)

find_table_entries(table_name, entries) ==
  IF entries.tag # "Ok" THEN entries
  ELSE find_table_found(entries, SelectSeq(entries.v,
      LAMBDA e : e.entry_type = kTable /\ e.tbl_name = table_name))

\* find_table.
find_table(db, table_name) ==
  find_table_entries(table_name, read_schema(db))

\* format!("on {} ({})", table_name, column_name).to_lowercase()
IndexPattern(table_name, column_name) ==
  to_lowercase(S(<<"o", "n", " ">>) \o table_name \o S(<<" ", "(">>)
               \o column_name \o S(<<")">>))

find_index_for_column_found(entries, found) ==
  Ok(IF found = <<>> THEN None ELSE Some(found[1]), entries.reads)

find_index_for_column_pattern(entries, pattern) ==
  find_index_for_column_found(entries,
    SelectSeq(entries.v,
                LAMBDA e : is_index(e) /\ contains(to_lowercase(e.sql), pattern)))

find_index_for_column_entries(table_name, column_name, entries) ==
  IF entries.tag # "Ok" THEN entries
  ELSE find_index_for_column_pattern(entries, IndexPattern(table_name, column_name))

\* find_index_for_column: Ok(Some(entry)) for the first index whose SQL holds
\* the pattern, Ok(None) when there is none.
find_index_for_column(db, table_name, column_name) ==
  find_index_for_column_entries(table_name, column_name, read_schema(db))

\* FirstTokens with the last token of each piece for the first.
FirstTokens_Last(pieces) ==
  LET Kept(kept) == [i \in 1..Len(kept) |-> kept[i][Len(kept[i])]]
  IN Kept(SelectSeq([i \in 1..Len(pieces) |-> split_whitespace(trim(pieces[i]))],
                    LAMBDA t : t # <<>>))

\* The first whitespace-delimited token of each piece that has one
\* (filter_map over split_whitespace().next()).
FirstTokens(pieces) ==
  LET Kept(kept) == [i \in 1..Len(kept) |-> kept[i][1]]
  IN Kept(SelectSeq([i \in 1..Len(pieces) |-> split_whitespace(trim(pieces[i]))],
                    LAMBDA t : t # <<>>))

\* parse_column_names.
parse_column_names(create_sql) ==
  LET Parens(open, close) ==
        IF ~open.some THEN <<>>
        ELSE IF ~close.some THEN <<>>
        ELSE FirstTokens(split(Slice(create_sql, open.v + 1, close.v), AsciiCode[","]))
  IN Parens(find(create_sql, S(<<"(">>)), rfind(create_sql, S(<<")">>)))

\* columns.iter().position(|c| c.eq_ignore_ascii_case(name)), zero-based.
ColumnPosition(columns, name) ==
  LET First(hits) == IF hits = {} THEN None ELSE Some(Min(hits) - 1) IN
  First({i \in 1..Len(columns) : eq_ignore_ascii_case(columns[i], name)})

\* The Options of an index found for the column names, collected into a
\* Result: the indices, or the error of the first name that has none.
CollectIndices(found) ==
  IF \E i \in 1..Len(found) : ~found[i].some
  THEN [ok |-> FALSE, v |-> <<>>]
  ELSE [ok |-> TRUE, v |-> [i \in 1..Len(found) |-> found[i].v]]

\* The rows of the records: Record::parse, then read_strings.
RowsOf(record_data, column_indices) ==
  [i \in 1..Len(record_data) |->
     Record_read_strings(Record_parse(record_data[i].page_data, record_data[i].offset),
                         column_indices)]

count_table_rows_records(table, records) ==
  IF records.tag # "Ok" THEN Propagate(records, table.reads)
  ELSE Ok(Len(records.v), table.reads \o records.reads)

count_table_rows_table(db, table) ==
  IF table.tag # "Ok" THEN table
  ELSE count_table_rows_records(table, traverse_btree_table(db.v, table.v.rootpage,
      NumPages(db.v) + 1))

count_table_rows_db(table_name, db) ==
  IF db.tag # "Ok" THEN db
  ELSE count_table_rows_table(db, find_table(db.v, table_name))

\* count_table_rows.
count_table_rows(file, overflow_checks, table_name) ==
  count_table_rows_db(table_name, Database_open(file, overflow_checks))

select_columns_record_data(table, column_indices, record_data) ==
  IF record_data.tag # "Ok" THEN Propagate(record_data, table.reads)
  ELSE Ok(RowsOf(record_data.v, column_indices.v),
          table.reads \o record_data.reads)

select_columns_column_indices(db, table, column_indices) ==
  IF ~column_indices.ok THEN Err("Column not found", table.reads)
  ELSE select_columns_record_data(table, column_indices, traverse_btree_table(db.v,
      table.v.rootpage, NumPages(db.v) + 1))

select_columns_columns(column_names, db, table, columns) ==
  select_columns_column_indices(db, table,
      CollectIndices([i \in 1..Len(column_names) |->
                        ColumnPosition(columns, column_names[i])]))

select_columns_table(column_names, db, table) ==
  IF table.tag # "Ok" THEN table
  ELSE select_columns_columns(column_names, db, table, parse_column_names(table.v.sql))

select_columns_db(table_name, column_names, db) ==
  IF db.tag # "Ok" THEN db
  ELSE select_columns_table(column_names, db, find_table(db.v, table_name))

\* select_columns.
select_columns(file, overflow_checks, table_name, column_names) ==
  select_columns_db(table_name, column_names, Database_open(file, overflow_checks))

\* parse_where_clause: Ok [column, value], Err when the clause does not
\* split into two parts at '=', and a panic of the slice
\* value_part[1..value_part.len() - 1] when value_part is a lone quote.
parse_where_clause(where_clause) ==
  LET Filter(column, value_part, quote) ==
        IF starts_with(value_part, quote) /\ ends_with(value_part, quote)
        THEN IF Len(value_part) < 2
             THEN Panic("slice index starts at 1 but ends at 0", <<>>)
             ELSE Ok([column |-> column,
                      value |-> Slice(value_part, 1, Len(value_part) - 1)], <<>>)
        ELSE Ok([column |-> column, value |-> value_part], <<>>)
      Parts(parts) ==
        IF Len(parts) # 2 THEN Err("Invalid WHERE clause format", <<>>)
        ELSE Filter(trim(parts[1]), trim(parts[2]), S(<<"'">>))
  IN Parts(split(where_clause, AsciiCode["="]))

kId == S(<<"i", "d">>)
kIdIntegerPrimaryKey ==
  S(<<"i", "d", " ", "i", "n", "t", "e", "g", "e", "r", " ",
      "p", "r", "i", "m", "a", "r", "y", " ", "k", "e", "y">>)

\* The index select_columns_with_filter gives a SELECT column: the rowid
\* marker for `id` on a table declared with "id integer primary key", else
\* the column's position.
FilterColumnIndex(table_sql, columns, col_name) ==
  IF eq_ignore_ascii_case(col_name, kId)
     /\ contains(to_lowercase(table_sql), kIdIntegerPrimaryKey)
  THEN Some(USIZE_MAX)
  ELSE ColumnPosition(columns, col_name)

RECURSIVE FetchByRowids(_, _, _, _, _)

FetchByRowids_r(db, rootpage, rowids, column_indices, acc, r) ==
  IF r.tag # "Ok" THEN Propagate(r, acc.reads)
  ELSE FetchByRowids(db, rootpage, Tail(rowids), column_indices,
         Ok(IF r.v.some
            THEN Append(acc.v,
                   Record_read_strings(Record_parse(r.v.v.page_data, r.v.v.offset),
                                       column_indices))
            ELSE acc.v,
            acc.reads \o r.reads))

\* The loop of the index path: one rowid lookup per matching rowid, a row
\* pushed for each record found.
FetchByRowids(db, rootpage, rowids, column_indices, acc) ==
  IF rowids = <<>> THEN acc
  ELSE FetchByRowids_r(db, rootpage, rowids, column_indices, acc,
      find_record_by_rowid(db, rootpage, Head(rowids), NumPages(db) + 1))

\* The full-scan branch's filter: the rows of the records whose filter
\* column reads as a string equal to filter_value.
ScanMatches(record_data, filter_column_index, filter_value, column_indices) ==
  LET Matches(value) == value.some /\ value.v = filter_value
      Rows(hits) == [i \in 1..Len(hits) |-> Record_read_strings(hits[i], column_indices)]
  IN Rows(SelectSeq([i \in 1..Len(record_data) |->
                       Record_parse(record_data[i].page_data, record_data[i].offset)],
                    LAMBDA r : Matches(Record_read_string(r, filter_column_index))))

IndexPath_matching_rowids(db, table, column_indices, reads, matching_rowids) ==
  IF matching_rowids.tag # "Ok" THEN Propagate(matching_rowids, reads)
  ELSE FetchByRowids(db, table.rootpage, matching_rowids.v, column_indices,
                     Ok(<<>>, reads \o matching_rowids.reads))

\* The branch of select_columns_with_filter taken when an index exists.
IndexPath(db, table, index, filter_value, column_indices, reads) ==
  IndexPath_matching_rowids(db, table, column_indices, reads, search_index_btree(db,
      index.rootpage, filter_value, NumPages(db) + 1))

ScanPath_record_data(filter_value, column_indices, reads, filter_column_index, record_data) ==
  IF record_data.tag # "Ok" THEN Propagate(record_data, reads)
  ELSE Ok(ScanMatches(record_data.v, filter_column_index.v, filter_value,
                      column_indices),
          reads \o record_data.reads)

ScanPath_filter_column_index(db, table, filter_value, column_indices, reads, filter_column_index) ==
  IF ~filter_column_index.some THEN Err("Column not found", reads)
  ELSE ScanPath_record_data(filter_value, column_indices, reads, filter_column_index,
      traverse_btree_table(db, table.rootpage, NumPages(db) + 1))

\* The branch of select_columns_with_filter taken when there is no index.
ScanPath(db, table, columns, filter_column, filter_value, column_indices, reads) ==
  ScanPath_filter_column_index(db, table, filter_value, column_indices, reads,
      ColumnPosition(columns, filter_column))

select_columns_with_filter_column_indices(db, table, filter, index_opt, reads, columns, column_indices) ==
  IF ~column_indices.ok THEN Err("Column not found", reads)
  ELSE IF index_opt.v.some
  THEN IndexPath(db.v, table.v, index_opt.v.v, filter.v.value, column_indices.v,
                 reads)
  ELSE ScanPath(db.v, table.v, columns, filter.v.column, filter.v.value,
                column_indices.v, reads)

select_columns_with_filter_columns(column_names, db, table, filter, index_opt, reads, columns) ==
  select_columns_with_filter_column_indices(db, table, filter, index_opt, reads,
      columns,
      CollectIndices([i \in 1..Len(column_names) |->
                        FilterColumnIndex(table.v.sql, columns, column_names[i])]))

select_columns_with_filter_reads(column_names, db, table, filter, index_opt, reads) ==
  select_columns_with_filter_columns(column_names, db, table, filter, index_opt, reads,
      parse_column_names(table.v.sql))

select_columns_with_filter_index_opt(column_names, db, table, filter, index_opt) ==
  IF index_opt.tag # "Ok" THEN Propagate(index_opt, table.reads)
  ELSE select_columns_with_filter_reads(column_names, db, table, filter, index_opt,
      table.reads \o index_opt.reads)

select_columns_with_filter_filter(table_name, column_names, db, table, filter) ==
  IF filter.tag # "Ok" THEN Propagate(filter, table.reads)
  ELSE select_columns_with_filter_index_opt(column_names, db, table, filter,
      find_index_for_column(db.v, table_name, filter.v.column))

select_columns_with_filter_table(table_name, column_names, where_clause, db, table) ==
  IF table.tag # "Ok" THEN table
  ELSE select_columns_with_filter_filter(table_name, column_names, db, table,
      parse_where_clause(where_clause))

select_columns_with_filter_db(table_name, column_names, where_clause, db) ==
  IF db.tag # "Ok" THEN db
  ELSE select_columns_with_filter_table(table_name, column_names, where_clause, db,
      find_table(db.v, table_name))

\* select_columns_with_filter.
select_columns_with_filter(file, overflow_checks, table_name, column_names, where_clause) ==
  select_columns_with_filter_db(table_name, column_names, where_clause,
      Database_open(file, overflow_checks))

(***************************************************************************)
(* Commands (commands.rs)                                                  *)
(***************************************************************************)

kCOUNT == S(<<"C", "O", "U", "N", "T">>)
kSELECT == S(<<"S", "E", "L", "E", "C", "T">>)
kFROM == S(<<" ", "F", "R", "O", "M", " ">>)
kWHERE == S(<<" ", "W", "H", "E", "R", "E", " ">>)
kBar == S(<<"|">>)

\* What sql returns and prints: r is the Result of the db call; printed holds
\* the lines written to standard output, and called names the db function
\* sql handed the query to ("" when none).
SqlOutcome(r, called, printed) ==
  [tag |-> r.tag, v |-> r.v, reads |-> r.reads, called |-> called,
   printed |-> printed]

\* `for row in rows { println!("{}", row.join("|")); }`
PrintRows(rows) == [i \in 1..Len(rows) |-> join(rows[i], kBar)]

\* What sql returns for the rows of a db call: the rows printed when Ok.
SqlRows(rows, called) ==
  SqlOutcome(rows, called, IF rows.tag = "Ok" THEN PrintRows(rows.v) ELSE <<>>)

SqlSelect_table_tokens(file, overflow_checks, column_names, after_from, where_pos, table_tokens) ==
  IF table_tokens = <<>>
  THEN SqlOutcome(Err("Missing table name after FROM", <<>>), "", <<>>)
  ELSE IF where_pos.some
  THEN SqlRows(select_columns_with_filter(
                 file, overflow_checks, table_tokens[1], column_names,
                 Slice(after_from, where_pos.v + Len(kWHERE), Len(after_from))),
               "select_columns_with_filter")
  ELSE SqlRows(select_columns(file, overflow_checks, table_tokens[1], column_names),
               "select_columns")

SqlSelect_where_pos(file, overflow_checks, column_names, after_from, where_pos) ==
  SqlSelect_table_tokens(file, overflow_checks, column_names, after_from, where_pos,
    split_whitespace(IF where_pos.some THEN Slice(after_from, 0, where_pos.v)
                       ELSE after_from))

SqlSelect_after_from(file, overflow_checks, column_names, after_from) ==
  SqlSelect_where_pos(file, overflow_checks, column_names, after_from,
      find(to_uppercase(after_from), kWHERE))

SqlSelect_column_names(file, overflow_checks, query, from_idx, column_names) ==
  SqlSelect_after_from(file, overflow_checks, column_names, Slice(query,
      from_idx + Len(kFROM), Len(query)))

SqlSelect_pieces(file, overflow_checks, query, from_idx, pieces) ==
  SqlSelect_column_names(file, overflow_checks, query, from_idx,
      [i \in 1..Len(pieces) |-> trim(pieces[i])])

SqlSelect_select_len(file, overflow_checks, query, from_idx, select_len) ==
  IF select_len > from_idx
  THEN SqlOutcome(Panic("slice index starts at 7 but ends before", <<>>), "", <<>>)
  ELSE SqlSelect_pieces(file, overflow_checks, query, from_idx, split(Slice(query,
      select_len, from_idx), AsciiCode[","]))

\* The branch of sql for a query that holds " FROM " at from_idx.
SqlSelect(file, overflow_checks, query, from_idx) ==
  SqlSelect_select_len(file, overflow_checks, query, from_idx, 7)

sql_count(count) ==
  SqlOutcome(count, "count_table_rows",
             IF count.tag = "Ok" THEN <<to_string(count.v)>> ELSE <<>>)

sql_from_pos_in_query(file, overflow_checks, query, parts, from_pos_in_query) ==
  IF Len(parts) >= 4 /\ eq_ignore_ascii_case(parts[1], kSELECT)
     /\ from_pos_in_query.some
  THEN SqlSelect(file, overflow_checks, query, from_pos_in_query.v)
  ELSE SqlOutcome(Err("Unsupported query", <<>>), "", <<>>)

sql_upper_query(file, overflow_checks, query, parts, upper_query) ==
  IF contains(upper_query, kCOUNT)
  THEN sql_count(count_table_rows(file, overflow_checks, parts[Len(parts)]))
  ELSE sql_from_pos_in_query(file, overflow_checks, query, parts,
      find(to_uppercase(query), kFROM))

sql_parts(file, overflow_checks, query, parts) ==
  IF parts = <<>> THEN SqlOutcome(Err("Empty query", <<>>), "", <<>>)
  ELSE sql_upper_query(file, overflow_checks, query, parts, to_uppercase(query))

\* commands::sql.
sql(file, overflow_checks, query) ==
  sql_parts(file, overflow_checks, query, split_whitespace(query))

(***************************************************************************)
(* The file format, written: the database files the program is run on.     *)
(* Each encoder lays bytes out as the decoder above it reads them.         *)
(***************************************************************************)

\* The page size of the files, stored big-endian at PAGE_SIZE_OFFSET.
PageSize == 512

U16(n) == <<n \div 256, n % 256>>
U32(n) == <<n \div 16777216, (n \div 65536) % 256, (n \div 256) % 256, n % 256>>

Zeros(n) == [i \in 1..n |-> 0]

\* The canonical varint of x (x < 2^56): seven bits a byte, most significant
\* first, the high bit set on every byte but the last.
RECURSIVE VarintHigh(_)
VarintHigh(y) ==
  IF y = 0 THEN <<>> ELSE Append(VarintHigh(y \div 128), 128 + (y % 128))

EncodeVarint(x) == Append(VarintHigh(x \div 128), x % 128)

\* Column values: NULL, an integer, a text.
NullValue == [type |-> "null", int |-> 0, text |-> <<>>]
IntValue(n) == [type |-> "int", int |-> n, text |-> <<>>]
TextValue(t) == [type |-> "text", int |-> 0, text |-> t]

\* The serial type SQLite stores a value with: 0 for NULL, 8 and 9 for the
\* integers 0 and 1, the narrowest of 1 and 2 for other small integers,
\* 13 + 2 * length for a text.
SerialTypeOf(val) ==
  CASE val.type = "null" -> 0
    [] val.type = "text" -> 13 + 2 * Len(val.text)
    [] val.type = "int" /\ val.int = 0 -> 8
    [] val.type = "int" /\ val.int = 1 -> 9
    [] val.type = "int" /\ val.int >= -128 /\ val.int <= 127 -> 1
    [] OTHER -> 2

\* The big-endian two's-complement body of a value.
BodyOf(val) ==
  LET Body(serial_type) ==
        CASE serial_type = 1 -> <<(val.int + 256) % 256>>
          [] serial_type = 2 -> U16((val.int + 65536) % 65536)
          [] val.type = "text" -> val.text
          [] OTHER -> <<>>
  IN Body(SerialTypeOf(val))

\* A record: header_size, the serial types, the bodies.  header_size counts
\* its own varint, one byte for the records written here.
EncodeRecord(values) ==
  LET Record(types, bodies) == EncodeVarint(Len(types) + 1) \o types \o bodies
  IN Record(ConcatAll([i \in 1..Len(values) |-> EncodeVarint(SerialTypeOf(values[i]))]),
            ConcatAll([i \in 1..Len(values) |-> BodyOf(values[i])]))

\* A cell of a page of each kind.  A cell is [left, key, values]: the left
\* child of an interior cell, the rowid of a table cell, the record of a
\* leaf-table or index cell.
Cell(left, key, values) == [left |-> left, key |-> key, values |-> values]

EncodeCell(kind, cell) ==
  LET Payload(payload) ==
        CASE kind = LEAF_TABLE_BTREE_PAGE ->
               EncodeVarint(Len(payload)) \o EncodeVarint(cell.key) \o payload
          [] kind = INTERIOR_TABLE_BTREE_PAGE -> U32(cell.left) \o EncodeVarint(cell.key)
          [] kind = LEAF_INDEX_BTREE_PAGE -> EncodeVarint(Len(payload)) \o payload
          [] kind = INTERIOR_INDEX_BTREE_PAGE ->
               U32(cell.left) \o EncodeVarint(Len(payload)) \o payload
  IN Payload(EncodeRecord(cell.values))

\* A page as the fixtures describe it: the kind its cells are laid out for,
\* the kind byte written in its header (another one in a corrupt file), its
\* cells and its rightmost pointer (interior pages).
PageDesc(kind, cells, right) ==
  [kind |-> kind, kind_byte |-> kind, cells |-> cells, right |-> right]

\* The first 100 bytes of page 1: the magic string, the page size, zeros.
FileHeader ==
  S(<<"S", "Q", "L", "i", "t", "e", " ", "f", "o", "r", "m", "a", "t", " ", "3">>)
  \o <<0>> \o U16(PageSize) \o Zeros(PAGE1_HEADER_OFFSET - 18)

\* Cell i starts at the end of the page minus the lengths of cells 1..i
\* (the cell content area grows downwards from the end of the page).
RECURSIVE CellStarts(_, _)
CellStarts(cells, end) ==
  IF cells = <<>> THEN <<>>
  ELSE LET Start(start) == <<start>> \o CellStarts(Tail(cells), start)
       IN Start(end - Len(Head(cells)))

RECURSIVE ReverseConcat(_)
ReverseConcat(seqs) ==
  IF seqs = <<>> THEN <<>> ELSE ReverseConcat(Tail(seqs)) \o Head(seqs)

\* The PageSize bytes of page page_num.
EncodePage(page_num, desc) ==
  LET interior == desc.kind \in {INTERIOR_TABLE_BTREE_PAGE, INTERIOR_INDEX_BTREE_PAGE}
      Front(cells, content, front) ==
        front \o Zeros(content - Len(front)) \o ReverseConcat(cells)
      Content(cells, starts, content) ==
        Front(cells, content,
              (IF page_num = 1 THEN FileHeader ELSE <<>>)
              \o <<desc.kind_byte>> \o U16(0) \o U16(Len(cells)) \o U16(content) \o <<0>>
              \o (IF interior THEN U32(desc.right) ELSE <<>>)
              \o ConcatAll([i \in 1..Len(starts) |-> U16(starts[i])]))
      Starts(cells, starts) ==
        Content(cells, starts, IF starts = <<>> THEN PageSize ELSE starts[Len(starts)])
      Cells(cells) == Starts(cells, CellStarts(cells, PageSize))
  IN Cells([i \in 1..Len(desc.cells) |-> EncodeCell(desc.kind, desc.cells[i])])

\* The file of the pages descs[1], descs[2], ... (page numbers from 1).
EncodeFile(descs) == ConcatAll([n \in 1..Len(descs) |-> EncodePage(n, descs[n])])

(***************************************************************************)
(* The databases: one table, apples(id, name, color), of rows with rowids  *)
(* 1..N, and optionally an index on color.                                 *)
(***************************************************************************)

\* The most rows a table holds.
MaxRows == 4

kApples == S(<<"a", "p", "p", "l", "e", "s">>)
kPears == S(<<"p", "e", "a", "r", "s">>)
kName == S(<<"n", "a", "m", "e">>)
kColor == S(<<"c", "o", "l", "o", "r">>)
kIdx == S(<<"i", "d", "x">>)

kCreateApples ==
  S(<<"C", "R", "E", "A", "T", "E", " ", "T", "A", "B", "L", "E", " ",
      "a", "p", "p", "l", "e", "s", " ", "(",
      "i", "d", " ", "i", "n", "t", "e", "g", "e", "r", " ",
      "p", "r", "i", "m", "a", "r", "y", " ", "k", "e", "y", ",", " ",
      "n", "a", "m", "e", " ", "t", "e", "x", "t", ",", " ",
      "c", "o", "l", "o", "r", " ", "t", "e", "x", "t", ")">>)

kCreateIdx ==
  S(<<"C", "R", "E", "A", "T", "E", " ", "I", "N", "D", "E", "X", " ",
      "i", "d", "x", " ", "o", "n", " ", "a", "p", "p", "l", "e", "s", " ",
      "(", "c", "o", "l", "o", "r", ")">>)

\* The colors, in ascending string order.
Colors == <<S(<<"P", "i", "n", "k">>), S(<<"R", "e", "d">>)>>

\* The name of the row with rowid i: "n1", "n2", ...
NameOf(i) == S(<<"n">>) \o to_string(i)

\* The stored columns of row i: id is an INTEGER PRIMARY KEY, stored as NULL.
RowValues(colors, i) == <<NullValue, TextValue(NameOf(i)), TextValue(Colors[colors[i]])>>

\* The sequences of positive numbers that sum to n: the ways to cut n rows
\* into consecutive non-empty leaves.
RECURSIVE Compositions(_)
Compositions(n) ==
  IF n = 0 THEN {<<>>}
  ELSE UNION {{<<k>> \o c : c \in Compositions(n - k)} : k \in 1..n}

RECURSIVE SumTo(_, _)
SumTo(leaves, j) == IF j = 0 THEN 0 ELSE leaves[j] + SumTo(leaves, j - 1)

\* The rowids of leaf j and the last of them.
LeafRows(leaves, j) == [i \in 1..leaves[j] |-> SumTo(leaves, j - 1) + i]
LastRow(leaves, j) == SumTo(leaves, j)

TableLeaf(colors, leaves, j) ==
  LET Rows(rowids) ==
        PageDesc(LEAF_TABLE_BTREE_PAGE,
                 [i \in 1..Len(rowids) |-> Cell(0, rowids[i], RowValues(colors, rowids[i]))],
                 0)
  IN Rows(LeafRows(leaves, j))

\* An interior table page over leaves from..to, leaf j being page base + j:
\* a cell (page of leaf j, last rowid of leaf j) for every leaf but the
\* last, which is the rightmost child.
TableInterior(leaves, from, to, base) ==
  PageDesc(INTERIOR_TABLE_BTREE_PAGE,
           [i \in 1..(to - from) |-> Cell(base + from + i - 1, LastRow(leaves, from + i - 1), <<>>)],
           base + to)

\* The pages of the table, the root first, on page 2.  Flat: a root leaf or
\* a root over the leaves (pages 3..).  Tall: a root (page 2) over interior
\* pages 3 and 4, which share the leaves (pages 5..).
TablePages(colors, leaves, tall) ==
  LET L == Len(leaves)
      m == L \div 2
      Above ==
        IF tall
        THEN <<PageDesc(INTERIOR_TABLE_BTREE_PAGE, <<Cell(3, LastRow(leaves, m), <<>>)>>, 4),
               TableInterior(leaves, 1, m, 4),
               TableInterior(leaves, m + 1, L, 4)>>
        ELSE IF L = 1 THEN <<>>
        ELSE <<TableInterior(leaves, 1, L, 2)>>
  IN Above \o [j \in 1..L |-> TableLeaf(colors, leaves, j)]

\* The index entries (color, rowid) in index order: by color, then by rowid.
IndexEntries(colors) ==
  LET rowids == [i \in 1..Len(colors) |-> i]
      of(c) == SelectSeq(rowids, LAMBDA i : colors[i] = c)
      Sorted(sorted) ==
        [e \in 1..Len(sorted) |->
           Cell(0, 0, <<TextValue(Colors[colors[sorted[e]]]), IntValue(sorted[e])>>)]
  IN Sorted(ConcatAll([c \in 1..Len(Colors) |-> of(c)]))

\* The pages of the index, the root first, on page root.  "leaf": every
\* entry on a root leaf.  "interior": entry number sep in the one cell of an
\* interior root, the entries before it on the left child, those after it on
\* the rightmost child.
IndexPages(colors, index, root) ==
  LET Entries(entries) ==
        CASE index.kind = "none" -> <<>>
          [] index.kind = "leaf" -> <<PageDesc(LEAF_INDEX_BTREE_PAGE, entries, 0)>>
          [] index.kind = "interior" ->
               <<PageDesc(INTERIOR_INDEX_BTREE_PAGE,
                          <<[entries[index.sep] EXCEPT !.left = root + 1]>>, root + 2),
                 PageDesc(LEAF_INDEX_BTREE_PAGE, SubSeq(entries, 1, index.sep - 1), 0),
                 PageDesc(LEAF_INDEX_BTREE_PAGE,
                          SubSeq(entries, index.sep + 1, Len(entries)), 0)>>
  IN Entries(IndexEntries(colors))

\* A row of the schema catalog.
CatalogCell(rowid, type, name, tbl_name, rootpage, create_sql) ==
  Cell(0, rowid, <<TextValue(type), TextValue(name), TextValue(tbl_name),
                   IntValue(rootpage), TextValue(create_sql)>>)

\* Page 1: the catalog, a leaf holding the table's row and the index's.
CatalogPage(index, index_root) ==
  PageDesc(LEAF_TABLE_BTREE_PAGE,
           <<CatalogCell(1, kTable, kApples, kApples, 2, kCreateApples)>>
           \o (IF index.kind = "none" THEN <<>>
               ELSE <<CatalogCell(2, kIndex, kIdx, kApples, index_root, kCreateIdx)>>),
           0)

\* The damage done to a file: none; the kind byte of a page overwritten;
\* a child pointer of an interior page (the left child of cell slot, or the
\* rightmost pointer for slot = number of cells + 1) overwritten with 0, or
\* with the number of a page.
NoDamage == [what |-> "none", page |-> 0, slot |-> 0, byte |-> 0]
BadKind(page, byte) == [what |-> "kind", page |-> page, slot |-> 0, byte |-> byte]
ZeroPointer(page, slot) == [what |-> "zero", page |-> page, slot |-> slot, byte |-> 0]
LoopPointer(page, slot, to) == [what |-> "loop", page |-> page, slot |-> slot, byte |-> to]

Damage(descs, damage) ==
  CASE damage.what = "none" -> descs
    [] damage.what = "kind" ->
         [descs EXCEPT ![damage.page].kind_byte = damage.byte]
    [] damage.what \in {"zero", "loop"} ->
         IF damage.slot <= Len(descs[damage.page].cells)
         THEN [descs EXCEPT ![damage.page].cells[damage.slot].left = damage.byte]
         ELSE [descs EXCEPT ![damage.page].right = damage.byte]

\* The pages of the database an input describes, and its file.
Pages(in) ==
  LET Table(table, index_root) ==
        Damage(<<CatalogPage(in.index, index_root)>> \o table
               \o IndexPages(in.colors, in.index, index_root),
               in.damage)
      Rooted(table) == Table(table, 2 + Len(table))
  IN Rooted(TablePages(in.colors, in.leaves, in.tall))

File(in) == EncodeFile(Pages(in))

(***************************************************************************)
(* Specification Spec: the three queries of db/schema/schema.rs, each run  *)
(* once on a database.                                                     *)
(***************************************************************************)

Input(colors, leaves, tall, index, damage) ==
  [colors |-> colors, leaves |-> leaves, tall |-> tall, index |-> index,
   damage |-> damage]

NoIndex == [kind |-> "none", sep |-> 0]
LeafIndex == [kind |-> "leaf", sep |-> 0]
InteriorIndex(sep) == [kind |-> "interior", sep |-> sep]

\* Rows of alternating colors.
Alternating(n) == [i \in 1..n |-> 1 + (i % 2)]

\* The number of pages of an undamaged database.
PageCount(in) == Len(Pages([in EXCEPT !.damage = NoDamage]))

\* The table-tree pointers of an undamaged database: (page, slot) for every
\* interior table page.
TablePointers(in) ==
  LET Pointers(descs) ==
        {<<p, slot>> \in (1..Len(descs)) \X (1..(MaxRows + 1)) :
           descs[p].kind = INTERIOR_TABLE_BTREE_PAGE /\ slot <= Len(descs[p].cells) + 1}
  IN Pointers(Pages([in EXCEPT !.damage = NoDamage]))

\* The damaged versions of a database: the kind byte of any one page
\* zeroed, or any one pointer of the table tree zeroed.
Damaged(in) ==
  {[in EXCEPT !.damage = BadKind(p, 0)] : p \in 1..PageCount(in)}
  \cup {[in EXCEPT !.damage = ZeroPointer(ps[1], ps[2])] : ps \in TablePointers(in)}

\* Tables of every shape, without an index: every way to cut the rows into
\* leaves under one root, and with four leaves or more also under a root
\* over two interior pages.
ShapeInputs ==
  {Input(Alternating(SumTo(leaves, Len(leaves))), leaves, tall, NoIndex, NoDamage) :
     <<leaves, tall>> \in
       {lt \in (UNION {Compositions(n) : n \in 1..MaxRows}) \X BOOLEAN :
          lt[2] => Len(lt[1]) >= 4}}

\* Tables of every coloring, on one leaf or two, with an index on color: on
\* one leaf, or (three entries or more) on an interior root over two
\* non-empty leaves.
IndexInputs ==
  {Input(colors, leaves, FALSE, index, NoDamage) :
     <<colors, leaves, index>> \in
       {cli \in (UNION {[1..n -> 1..Len(Colors)] : n \in 1..MaxRows})
                \X (UNION {Compositions(n) : n \in 1..MaxRows})
                \X ({LeafIndex} \cup {InteriorIndex(k) : k \in 2..(MaxRows - 1)}) :
          /\ SumTo(cli[2], Len(cli[2])) = Len(cli[1])
          /\ Len(cli[2]) <= 2
          /\ Len(cli[2]) = 2 => cli[2][1] = (Len(cli[1]) + 1) \div 2
          /\ cli[3].kind = "interior" => cli[3].sep < Len(cli[1])}}

Inputs ==
  ShapeInputs \cup IndexInputs
  \cup UNION {Damaged(in) : in \in ShapeInputs}
  \cup UNION {Damaged(in) : in \in {i \in IndexInputs : i.colors = Alternating(MaxRows)}}

TableNames == {kApples, kPears}
ColumnLists == {<<kName>>, <<kId, kName>>, <<kName, kColor>>}

\* color = '<value>'
WhereColor(value) == kColor \o S(<<" ", "=", " ", "'">>) \o value \o S(<<"'">>)

kBlue == S(<<"B", "l", "u", "e">>)
FilterValues == {Colors[1], Colors[2], kBlue}

NoCall ==
  [op |-> "", table_name |-> <<>>, column_names |-> <<>>, value |-> <<>>,
   query |-> <<>>]
NoResult == [tag |-> "", v |-> 0, reads |-> <<>>]

Init ==
  /\ pc = "ready"
  /\ input \in Inputs
  /\ call = NoCall
  /\ out = NoResult

\* count_table_rows(path, table_name)
CountTableRows ==
  /\ pc = "ready"
  /\ \E table_name \in TableNames, overflow_checks \in BOOLEAN :
       /\ call' = [op |-> "count_table_rows", table_name |-> table_name,
                   column_names |-> <<>>, value |-> <<>>, query |-> <<>>]
       /\ out' = count_table_rows(File(input), overflow_checks, table_name)
  /\ pc' = "done"
  /\ UNCHANGED input

\* select_columns(path, table_name, column_names)
SelectColumns ==
  /\ pc = "ready"
  /\ \E table_name \in TableNames, column_names \in ColumnLists,
        overflow_checks \in BOOLEAN :
       /\ call' = [op |-> "select_columns", table_name |-> table_name,
                   column_names |-> column_names, value |-> <<>>, query |-> <<>>]
       /\ out' = select_columns(File(input), overflow_checks, table_name, column_names)
  /\ pc' = "done"
  /\ UNCHANGED input

\* select_columns_with_filter(path, table_name, column_names, where_clause)
SelectColumnsWithFilter ==
  /\ pc = "ready"
  /\ \E table_name \in TableNames, column_names \in ColumnLists,
        value \in FilterValues, overflow_checks \in BOOLEAN :
       /\ call' = [op |-> "select_columns_with_filter", table_name |-> table_name,
                   column_names |-> column_names, value |-> value, query |-> <<>>]
       /\ out' = select_columns_with_filter(File(input), overflow_checks, table_name,
                                            column_names, WhereColor(value))
  /\ pc' = "done"
  /\ UNCHANGED input

Next == CountTableRows \/ SelectColumns \/ SelectColumnsWithFilter

Spec == Init /\ [][Next]_vars

(***************************************************************************)
(* What the file format says a table holds, read from the description of   *)
(* the pages and not from their bytes.                                     *)
(***************************************************************************)

\* The child pointers of an interior page in order, the left child of every
\* cell and then the rightmost pointer, the pointers that are 0 left out.
DescChildren(desc) ==
  SelectSeq([i \in 1..Len(desc.cells) |-> desc.cells[i].left] \o <<desc.right>>,
            LAMBDA c : c # 0)

\* The rowids of the leaf-table cells below page page_num, in B-tree order.
RECURSIVE RowidsUnder(_, _, _)
RowidsUnder(descs, page_num, depth) ==
  IF depth = 0 \/ page_num > Len(descs) THEN <<>>
  ELSE IF descs[page_num].kind = LEAF_TABLE_BTREE_PAGE
  THEN [i \in 1..Len(descs[page_num].cells) |-> descs[page_num].cells[i].key]
  ELSE LET Under(children) ==
             ConcatAll([i \in 1..Len(children) |->
                          RowidsUnder(descs, children[i], depth - 1)])
       IN Under(DescChildren(descs[page_num]))

\* The rowids of the cells reachable from the root of the table (page 2).
Reachable ==
  LET Root(descs) == RowidsUnder(descs, 2, Len(descs)) IN Root(Pages(input))

\* The position of the column name among the columns asked for.
NamePosition == CHOOSE k \in 1..Len(call.column_names) : call.column_names[k] = kName

Range(seq) == {seq[i] : i \in 1..Len(seq)}

\* Two sequences hold the same elements the same number of times.
SameMultiset(a, b) ==
  /\ Len(a) = Len(b)
  /\ \A x \in Range(a) \cup Range(b) :
       Cardinality({i \in 1..Len(a) : a[i] = x})
       = Cardinality({i \in 1..Len(b) : b[i] = x})

Done(op) == pc = "done" /\ call.op = op /\ call.table_name = kApples

(***************************************************************************)
(* Claims on the three queries (specification Spec)                        *)
(***************************************************************************)

\* C1: on a well-formed table with a well-formed index on color (a root leaf,
\* or an interior root whose cell carries an entry of the index),
\* select_columns_with_filter on the index path returns the same multiset of
\* rows as the full scan with filter does on the same table and value.
C1_IndexPathEqualsFullScan ==
  (Done("select_columns_with_filter") /\ input.damage = NoDamage
   /\ input.index.kind # "none")
  => /\ out.tag = "Ok"
     /\ SameMultiset(out.v,
          select_columns_with_filter(File([input EXCEPT !.index = NoIndex]), FALSE,
                                     call.table_name, call.column_names,
                                     WhereColor(call.value)).v)

\* C2: on a well-formed table, count_table_rows returns the number of
\* leaf-table cells reachable from the root, which is the number of records
\* traverse_btree_table collects from the root.
C2_CountIsReachableLeafCells ==
  (Done("count_table_rows") /\ input.damage = NoDamage)
  => /\ out.tag = "Ok"
     /\ out.v = Len(Reachable)
     /\ LET Scan(db) == traverse_btree_table(db, 2, NumPages(db) + 1)
        IN out.v = Len(Scan(Database_open(File(input), FALSE).v).v)

\* C2's case: a count over a tree of three levels.
C2_Witness ==
  Done("count_table_rows") /\ input.damage = NoDamage /\ input.tall
  /\ out.tag = "Ok" /\ out.v = MaxRows

\* C4: on a well-formed table, select_columns emits one row per leaf-table
\* cell, the i-th row from the i-th cell in traversal order, and that order is
\* strictly ascending in the rowid.
C4_OneRowPerCellInRowidOrder ==
  (Done("select_columns") /\ input.damage = NoDamage)
  => /\ out.tag = "Ok"
     /\ Len(out.v) = Len(Reachable)
     /\ \A i \in 1..Len(out.v) :
          /\ Len(out.v[i]) = Len(call.column_names)
          /\ out.v[i][NamePosition] = NameOf(Reachable[i])
     /\ \A i, j \in 1..Len(Reachable) : i < j => Reachable[i] < Reachable[j]

\* C4's case: the rows of a tree of several leaves, one of which holds more
\* than one cell.
C4_Witness ==
  Done("select_columns") /\ input.damage = NoDamage /\ Len(input.leaves) >= 2
  /\ (\E j \in 1..Len(input.leaves) : input.leaves[j] > 1)
  /\ out.tag = "Ok" /\ Len(out.v) = MaxRows

\* C5: on a table declared with id INTEGER PRIMARY KEY, every query that
\* outputs the column id (select_columns, and select_columns_with_filter by
\* full scan and by index) emits the rowid of the row, in decimal, there.
C5_IdIsRowidOnEveryPath ==
  (pc = "done" /\ call.op \in {"select_columns", "select_columns_with_filter"}
   /\ call.table_name = kApples /\ input.damage = NoDamage
   /\ call.column_names = <<kId, kName>> /\ out.tag = "Ok")
  => \A i \in 1..Len(out.v) :
       \E rowid \in 1..Len(input.colors) :
         out.v[i] = <<to_string(rowid), NameOf(rowid)>>

\* C7: an operation that reaches a page whose kind byte is none of 2, 5, 10
\* and 13 ends in a returned error, not in a panic and not in a result.
C7_UnknownKindIsReturnedError ==
  (pc = "done" /\ input.damage.what = "kind" /\ input.damage.page \in Range(out.reads))
  => out.tag = "Err"

\* C8: in a full scan a child pointer that is 0 is skipped: page 0 is not
\* read, the scan ends in a result, and the records under the other children
\* are collected, in order.
C8_ZeroPointerSkipped ==
  (pc = "done" /\ call.op \in {"count_table_rows", "select_columns"}
   /\ call.table_name = kApples /\ input.damage.what = "zero")
  => /\ out.tag = "Ok"
     /\ 0 \notin Range(out.reads)
     /\ call.op = "count_table_rows" => out.v = Len(Reachable)
     /\ call.op = "select_columns" =>
          /\ Len(out.v) = Len(Reachable)
          /\ \A i \in 1..Len(out.v) : out.v[i][NamePosition] = NameOf(Reachable[i])

\* C8's case: a scan that passed a zeroed pointer of the page it read and
\* still collected the rows under the other children.
C8_Witness ==
  Done("select_columns") /\ input.damage.what = "zero"
  /\ input.damage.page \in Range(out.reads)
  /\ out.tag = "Ok" /\ Len(out.v) >= 1 /\ Len(out.v) < Len(input.colors)

(***************************************************************************)
(* Specification SpecSql: commands::sql run once on a database.            *)
(***************************************************************************)

kSize == S(<<"s", "i", "z", "e">>)
kCountWord == S(<<"c", "o", "u", "n", "t">>)
kSelectName == S(<<"S", "E", "L", "E", "C", "T", " ", "n", "a", "m", "e">>)
kSelectIdName == S(<<"S", "E", "L", "E", "C", "T", " ", "i", "d", ",", " ", "n", "a", "m",
        "e">>)
kSelectNameColor == S(<<"S", "E", "L", "E", "C", "T", " ", "n", "a", "m", "e", ",", " ", "c",
        "o", "l", "o", "r">>)
kSelectSize == S(<<"S", "E", "L", "E", "C", "T", " ", "s", "i", "z", "e">>)
kSelectNameDiscount == S(<<"S", "E", "L", "E", "C", "T", " ", "n", "a", "m", "e", ",", " ", "d",
        "i", "s", "c", "o", "u", "n", "t">>)

\* A query as the action hands it to sql: its text, and what its parts are.
Query(text, column_names, table_name, value) ==
  [text |-> text, column_names |-> column_names, table_name |-> table_name,
   value |-> value]

\* SELECT <columns> FROM <table> and SELECT <columns> FROM <table> WHERE <where>
SelectFrom(select, table_name) == select \o kFROM \o table_name
SelectWhere(select, table_name, where) == select \o kFROM \o table_name \o kWHERE \o where

\* The select lists of the queries, with the columns they name.
SelectLists ==
  {<<kSelectName, <<kName>>>>, <<kSelectIdName, <<kId, kName>>>>,
   <<kSelectNameColor, <<kName, kColor>>>>}

\* The literals of the WHERE clauses: the two colors, a text no row holds,
\* and a text that holds the letters of COUNT.
SqlValues == FilterValues \cup {kCountWord}

\* The queries of the supported shape over the table and its columns.
SelectQueries ==
  {Query(SelectFrom(sl[1], kApples), sl[2], kApples, <<>>) : sl \in SelectLists}
  \cup {Query(SelectWhere(slv[1][1], kApples, WhereColor(slv[2])), slv[1][2], kApples,
              slv[2]) : slv \in SelectLists \X SqlValues}

\* The queries of the error classes: empty; of no supported shape; over a
\* table the catalog does not hold; over a column the table does not hold (in
\* the select list, in the WHERE clause); with a WHERE clause that is no
\* single equality with a quoted literal.
ErrorQueries ==
  {Query(<<>>, <<>>, <<>>, <<>>),
   Query(S(<<" ", " ">>), <<>>, <<>>, <<>>),
   Query(S(<<"D", "E", "L", "E", "T", "E", " ", "F", "R", "O", "M", " ", "a", "p",
        "p", "l", "e", "s">>), <<>>, kApples, <<>>),
   Query(S(<<"S", "E", "L", "E", "C", "T", " ", "F", "R", "O", "M", " ", "a", "p",
        "p", "l", "e", "s", " ", "x">>), <<>>, kApples, <<>>),
   Query(SelectFrom(kSelectName, kPears), <<kName>>, kPears, <<>>),
   Query(SelectFrom(kSelectSize, kApples), <<kSize>>, kApples, <<>>),
   Query(SelectFrom(kSelectNameDiscount, kApples), <<kName>>, kApples, <<>>),
   Query(SelectWhere(kSelectName, kApples, kSize \o S(<<" ", "=", " ", "'", "1", "'">>)),
         <<kName>>, kApples, <<>>),
   Query(SelectWhere(kSelectName, kApples, kColor), <<kName>>, kApples, <<>>),
   Query(SelectWhere(kSelectName, kApples, kColor \o S(<<" ", "=", " ">>) \o Colors[2]),
         <<kName>>, kApples, <<>>),
   Query(SelectWhere(kSelectName, kApples, kColor \o S(<<" ", "=", " ", "'">>)),
         <<kName>>, kApples, <<>>)}

Queries == SelectQueries \cup ErrorQueries

\* The databases sql is run on: the tables of every shape, and the tables
\* of alternating colors with an index.
SqlInputs == ShapeInputs \cup {i \in IndexInputs : i.colors = Alternating(MaxRows)}

InitSql ==
  /\ pc = "ready"
  /\ input \in SqlInputs
  /\ call = NoCall
  /\ out = NoResult

\* sql(path, query)
Sql ==
  /\ pc = "ready"
  /\ \E q \in Queries, overflow_checks \in BOOLEAN :
       /\ call' = [op |-> "sql", table_name |-> q.table_name,
                   column_names |-> q.column_names, value |-> q.value,
                   query |-> q.text]
       /\ out' = sql(File(input), overflow_checks, q.text)
  /\ pc' = "done"
  /\ UNCHANGED input

NextSql == Sql

SpecSql == InitSql /\ [][NextSql]_vars

\* The rowids of the records a query selects: every reachable one, or with a
\* WHERE clause those whose color is the literal.
Selected ==
  IF call.value = <<>> THEN Reachable
  ELSE SelectSeq(Reachable, LAMBDA r : Colors[input.colors[r]] = call.value)

\* C3: a query SELECT <columns> FROM <table> [WHERE <column> = '<value>']
\* whose select list is not COUNT(*) is handed to the column selection and
\* prints one line per selected record, the requested columns joined by '|',
\* whatever letters its names and its literal hold; it never prints a count.
C3_SelectNeverCounts ==
  (pc = "done" /\ call.op = "sql"
   /\ call.query \in {q.text : q \in SelectQueries})
  => /\ out.called \in {"select_columns", "select_columns_with_filter"}
     /\ out.tag = "Ok"
     /\ Len(out.printed) = Len(Selected)
     /\ \A i \in 1..Len(out.printed) :
          /\ Len(out.v[i]) = Len(call.column_names)
          /\ out.printed[i] = join(out.v[i], kBar)

\* C6: a query of one of the error classes ends in a returned Err, prints no
\* row and does not panic.
C6_ErrorClassesReturnErr ==
  (pc = "done" /\ call.op = "sql"
   /\ call.query \in {q.text : q \in ErrorQueries})
  => out.tag = "Err" /\ out.printed = <<>>

(***************************************************************************)
(* Specification SpecSchema: read_schema and read_table_names, each run    *)
(* once on a schema catalog.                                               *)
(***************************************************************************)

\* The most rows a catalog holds.
MaxEntries == 2

kView == S(<<"v", "i", "e", "w">>)
kTrigger == S(<<"t", "r", "i", "g", "g", "e", "r">>)
kSqliteSequence ==
  S(<<"s", "q", "l", "i", "t", "e", "_", "s", "e", "q", "u", "e", "n", "c", "e">>)
kV == S(<<"v">>)
kT == S(<<"t">>)

\* A catalog row: type and tbl_name are column values (a text, which may be
\* empty, or NULL), name a string.
CatalogRow(type, name, tbl_name, rootpage) ==
  [type |-> type, name |-> name, tbl_name |-> tbl_name, rootpage |-> rootpage]

\* The rows the catalogs are made of: two user tables, an internal table,
\* an index, a view, a trigger, and rows whose type or tbl_name is an empty
\* text or NULL.
CatalogPool ==
  <<CatalogRow(TextValue(kTable), kApples, TextValue(kApples), 4),
    CatalogRow(TextValue(kTable), kPears, TextValue(kPears), 5),
    CatalogRow(TextValue(kTable), kSqliteSequence, TextValue(kSqliteSequence), 6),
    CatalogRow(TextValue(kIndex), kIdx, TextValue(kApples), 7),
    CatalogRow(TextValue(kView), kV, TextValue(kV), 0),
    CatalogRow(TextValue(kTrigger), kT, TextValue(kApples), 0),
    CatalogRow(TextValue(<<>>), kV, TextValue(kV), 0),
    CatalogRow(NullValue, kV, TextValue(kV), 0),
    CatalogRow(TextValue(kIndex), kIdx, TextValue(<<>>), 7),
    CatalogRow(TextValue(kIndex), kIdx, NullValue, 7)>>

\* The sequences of n distinct rows of the pool, as pool positions.
RECURSIVE Arrangements(_)
Arrangements(n) ==
  IF n = 0 THEN {<<>>}
  ELSE {Append(a, k) : <<a, k>> \in
          {ak \in Arrangements(n - 1) \X (1..Len(CatalogPool)) :
             \A i \in 1..Len(ak[1]) : ak[1][i] # ak[2]}}

\* A catalog: its rows in cell order, on page 1 (a leaf) or on two leaves
\* (pages 2 and 3) under page 1, an interior page.
CatalogInputs ==
  {[entries |-> e, interior |-> b] :
     <<e, b>> \in {eb \in (UNION {Arrangements(n) : n \in 0..MaxEntries}) \X BOOLEAN :
                     eb[2] => Len(eb[1]) >= 2}}

\* The cell of row number i of a catalog (rowid i).
CatalogRowCell(entries, i) ==
  Cell(0, i, <<CatalogPool[entries[i]].type,
               TextValue(CatalogPool[entries[i]].name),
               CatalogPool[entries[i]].tbl_name,
               IntValue(CatalogPool[entries[i]].rootpage),
               TextValue(<<>>)>>)

\* The leaf holding rows from..to of a catalog.
CatalogLeaf(entries, from, to) ==
  PageDesc(LEAF_TABLE_BTREE_PAGE,
           [i \in 1..(to - from + 1) |-> CatalogRowCell(entries, from + i - 1)], 0)

\* The rows of the first leaf of an interior catalog: half of them, rounded up.
FirstLeafRows(entries) == (Len(entries) + 1) \div 2

CatalogPages(in) ==
  IF in.interior
  THEN <<PageDesc(INTERIOR_TABLE_BTREE_PAGE,
                  <<Cell(2, FirstLeafRows(in.entries), <<>>)>>, 3),
         CatalogLeaf(in.entries, 1, FirstLeafRows(in.entries)),
         CatalogLeaf(in.entries, FirstLeafRows(in.entries) + 1, Len(in.entries))>>
  ELSE <<CatalogLeaf(in.entries, 1, Len(in.entries))>>

CatalogFile(in) == EncodeFile(CatalogPages(in))

InitSchema ==
  /\ pc = "ready"
  /\ input \in CatalogInputs
  /\ call = NoCall
  /\ out = NoResult

\* read_schema(&mut db), on the database Database::open returns.
ReadSchema ==
  /\ pc = "ready"
  /\ \E overflow_checks \in BOOLEAN :
       /\ call' = [NoCall EXCEPT !.op = "read_schema"]
       /\ out' = read_schema(Database_open(CatalogFile(input), overflow_checks).v)
  /\ pc' = "done"
  /\ UNCHANGED input

\* read_table_names(path)
ReadTableNames ==
  /\ pc = "ready"
  /\ \E overflow_checks \in BOOLEAN :
       /\ call' = [NoCall EXCEPT !.op = "read_table_names"]
       /\ out' = read_table_names(CatalogFile(input), overflow_checks)
  /\ pc' = "done"
  /\ UNCHANGED input

NextSchema == ReadSchema \/ ReadTableNames

SpecSchema == InitSchema /\ [][NextSchema]_vars

\* The rows of the catalog, in cell order.
CatalogRows == [i \in 1..Len(input.entries) |-> CatalogPool[input.entries[i]]]

\* The names of the user tables of the catalog, in cell order.
UserTableNames ==
  [i \in 1..Len(SelectSeq(CatalogRows,
                          LAMBDA r : r.type = TextValue(kTable)
                                     /\ ~starts_with(r.name, kSqlitePrefix))) |->
     SelectSeq(CatalogRows,
               LAMBDA r : r.type = TextValue(kTable)
                          /\ ~starts_with(r.name, kSqlitePrefix))[i].tbl_name.text]

\* The rows of the catalog whose type and tbl_name are non-empty texts.
NamedRows ==
  SelectSeq(CatalogRows,
            LAMBDA r : /\ r.type.type = "text" /\ r.type.text # <<>>
                       /\ r.tbl_name.type = "text" /\ r.tbl_name.text # <<>>)

\* C9: on every catalog read_table_names returns the tbl_name of the rows
\* of type "table" whose name does not begin with "sqlite_", in cell order,
\* and so no internal table, index, view or trigger.
C9_TableNamesAreUserTables ==
  (pc = "done" /\ call.op = "read_table_names")
  => out.tag = "Ok" /\ out.v = UserTableNames

\* C10: read_schema yields no entry whose entry_type or tbl_name is empty;
\* a row whose type or tbl_name is an empty text or NULL is dropped, so it
\* yields as many entries as the catalog has rows with both non-empty.
C10_NoEmptyTypeOrTblName ==
  (pc = "done" /\ call.op = "read_schema" /\ ~input.interior)
  => /\ out.tag = "Ok"
     /\ \A i \in 1..Len(out.v) : out.v[i].entry_type # <<>> /\ out.v[i].tbl_name # <<>>
     /\ Len(out.v) = Len(NamedRows)

(***************************************************************************)
(* Specification SpecCodec: the decoders, each run once on an input.       *)
(***************************************************************************)

\* Bit j of a u64, bit 0 the least significant, and the number made of the
\* n bits from bit `from` upwards.
Bit(x, j) == (x[8 - (j \div 8)] \div (2 ^ (j % 8))) % 2

RECURSIVE BitsFrom(_, _, _)
BitsFrom(x, from, n) ==
  IF n = 0 THEN 0 ELSE Bit(x, from) + 2 * BitsFrom(x, from + 1, n - 1)

\* The canonical SQLite varint of a u64: nine bytes when one of the top eight
\* bits is set (eight bytes of seven bits each, then the low eight bits), else
\* the fewest groups of seven bits that hold it, all but the last flagged.
SevenBitGroups(x) == Min({g \in 1..8 : \A j \in (7 * g)..63 : Bit(x, j) = 0})

CanonicalVarint(x) ==
  IF x[1] # 0
  THEN [i \in 1..9 |-> IF i = 9 THEN x[8] ELSE 128 + BitsFrom(x, 8 + 7 * (8 - i), 7)]
  ELSE [i \in 1..SevenBitGroups(x) |->
          (IF i < SevenBitGroups(x) THEN 128 ELSE 0)
          + BitsFrom(x, 7 * (SevenBitGroups(x) - i), 7)]

\* The u64 values encoded: zero, and for each length the values whose first
\* non-zero byte is lead and whose lower bytes are all fill (among them
\* 2^7 - 1, 2^7, 2^14, 2^56 - 1, 2^56, 2^63 and 2^64 - 1).
Values64 ==
  {Zero64} \cup
  {[i \in 1..8 |-> IF i < s THEN 0 ELSE IF i = s THEN lead ELSE fill] :
     s \in 1..8, lead \in {1, 64, 127, 128, 255}, fill \in {0, 85, 128, 255}}

\* The bytes before a varint in its buffer.
Prefixes == {<<>>, <<255, 129>>}

EncodedInputs ==
  {[fn |-> "read_varint", encoded |-> TRUE, x |-> x, pos |-> Len(prefix),
    data |-> prefix \o CanonicalVarint(x)] : x \in Values64, prefix \in Prefixes}

\* A buffer of at least pos + 9 bytes: flagged bytes whose seven data bits
\* vary with the position, a byte that ends the varint unless all eight
\* before it are flagged, and a filler up to the length.
Buffer(pos, flagged, step, last, filler) ==
  [i \in 1..(pos + 10) |->
     IF i <= pos THEN 255
     ELSE IF i - pos <= flagged THEN 128 + ((step * (i - pos)) % 128)
     ELSE IF i - pos = flagged + 1 THEN last
     ELSE filler]

BufferInputs ==
  {[fn |-> "read_varint", encoded |-> FALSE, x |-> Zero64, pos |-> pos,
    data |-> Buffer(pos, flagged, step, last, filler)] :
     pos \in {0, 1}, flagged \in 0..8, step \in {0, 1, 37, 127},
     last \in {0, 1, 127}, filler \in {0, 255}}
  \cup
  {[fn |-> "read_varint", encoded |-> FALSE, x |-> Zero64, pos |-> pos,
    data |-> Buffer(pos, 8, step, last, 255)] :
     pos \in {0, 1}, step \in {0, 1, 37, 127}, last \in {128, 170, 255}}

\* The most a serial type is, for the sizes and the text decoding.
MaxSerialType == 40

\* Integer bodies of 3 and of 6 bytes: every first byte of a few, among them
\* both sides of the sign bit, with every arrangement of a few lower bytes;
\* the body stands after pos bytes and before one more.
Bodies(n) ==
  {[i \in 1..n |-> IF i = 1 THEN first ELSE rest[i - 1]] :
     first \in {0, 1, 127, 128, 129, 255},
     rest \in [1..(n - 1) -> {0, 128, 255}]}

IntInputs ==
  {[fn |-> "extract_int", serial_type |-> 3, body |-> body, pos |-> pos,
    data |-> [i \in 1..pos |-> 255] \o body \o <<85>>] :
     body \in Bodies(3), pos \in {0, 1}}
  \cup
  {[fn |-> "extract_int", serial_type |-> 5, body |-> body, pos |-> pos,
    data |-> [i \in 1..pos |-> 255] \o body \o <<85>>] :
     body \in Bodies(6), pos \in {0, 1}}

\* Buffers for the text decoding, some shorter than the text a serial type
\* announces.
TextBuffers == {<<>>, <<97, 98, 99>>, [i \in 1..16 |-> 96 + i]}

SerialTypeInputs ==
  {[fn |-> "serial_type", serial_type |-> n, data |-> data, pos |-> pos] :
     n \in 0..MaxSerialType, data \in TextBuffers, pos \in {0, 1}}

\* The most columns a stored record has.
MaxColumns == 2

\* A stored column: its serial type, its body, and for an integer its
\* decimal rendering.
StoredNull == [kind |-> "null", code |-> 0, body |-> <<>>, shown |-> <<>>]
StoredInt(code, body, shown) ==
  [kind |-> "int", code |-> code, body |-> body, shown |-> S(shown)]
StoredText(text) ==
  [kind |-> "text", code |-> 13 + 2 * Len(text), body |-> text, shown |-> text]
StoredBlob(bytes) ==
  [kind |-> "blob", code |-> 12 + 2 * Len(bytes), body |-> bytes, shown |-> <<>>]
StoredReal(bytes) == [kind |-> "real", code |-> 7, body |-> bytes, shown |-> <<>>]

\* A text long enough for a serial type of two bytes; two of them make a
\* payload whose size takes two bytes.
LongText == [i \in 1..70 |-> AsciiCode["x"]]

StoredColumns ==
  {StoredNull,
   StoredInt(1, <<5>>, <<"5">>), StoredInt(1, <<251>>, <<"-", "5">>),
   StoredInt(2, <<1, 0>>, <<"2", "5", "6">>),
   StoredInt(2, <<255, 0>>, <<"-", "2", "5", "6">>),
   StoredInt(3, <<1, 0, 0>>, <<"6", "5", "5", "3", "6">>),
   StoredInt(3, <<255, 255, 254>>, <<"-", "2">>),
   StoredInt(4, <<0, 1, 0, 0>>, <<"6", "5", "5", "3", "6">>),
   StoredInt(4, <<255, 255, 255, 255>>, <<"-", "1">>),
   StoredInt(5, <<0, 0, 0, 0, 1, 0>>, <<"2", "5", "6">>),
   StoredInt(5, <<255, 255, 255, 255, 255, 0>>, <<"-", "2", "5", "6">>),
   StoredInt(6, <<0, 0, 0, 0, 0, 0, 1, 0>>, <<"2", "5", "6">>),
   StoredInt(6, <<255, 255, 255, 255, 255, 255, 255, 255>>, <<"-", "1">>),
   StoredInt(8, <<>>, <<"0">>), StoredInt(9, <<>>, <<"1">>),
   StoredText(<<>>), StoredText(S(<<"a", "b">>)), StoredText(LongText),
   StoredBlob(<<1, 2, 3>>), StoredReal(<<63, 240, 0, 0, 0, 0, 0, 0>>)}

\* The leaf-table cell that stores the columns: the payload size, the rowid,
\* the header (its size and the serial types) and the bodies.
StoredCell(rowid, columns) ==
  LET Payload(types, bodies) ==
        EncodeVarint(Len(types) + 1 + Len(bodies)) \o EncodeVarint(rowid)
        \o EncodeVarint(Len(types) + 1) \o types \o bodies
  IN Payload(ConcatAll([i \in 1..Len(columns) |-> EncodeVarint(columns[i].code)]),
             ConcatAll([i \in 1..Len(columns) |-> columns[i].body]))

\* Records of 1..MaxColumns columns under a rowid of one byte and of two.
RecordInputs ==
  {[fn |-> "record", rowid |-> rowid, columns |-> columns,
    data |-> StoredCell(rowid, columns)] :
     <<rowid, columns>> \in
       {7, 300} \X UNION {[1..n -> StoredColumns] : n \in 1..MaxColumns}}

CodecInputs ==
  EncodedInputs \cup BufferInputs \cup IntInputs \cup SerialTypeInputs \cup RecordInputs

InitCodec ==
  /\ pc = "ready"
  /\ input \in CodecInputs
  /\ call = NoCall
  /\ out = NoResult

\* read_varint(data, pos)
ReadVarint ==
  /\ pc = "ready"
  /\ input.fn = "read_varint"
  /\ call' = [NoCall EXCEPT !.op = "read_varint"]
  /\ out' = read_varint(input.data, input.pos)
  /\ pc' = "done"
  /\ UNCHANGED input

\* extract_int_from_serial_type(serial_type, data, pos)
ExtractInt ==
  /\ pc = "ready"
  /\ input.fn = "extract_int"
  /\ call' = [NoCall EXCEPT !.op = "extract_int_from_serial_type"]
  /\ out' = extract_int_from_serial_type(input.serial_type, input.data, input.pos)
  /\ pc' = "done"
  /\ UNCHANGED input

\* get_column_size(serial_type)
GetColumnSize ==
  /\ pc = "ready"
  /\ input.fn = "serial_type"
  /\ call' = [NoCall EXCEPT !.op = "get_column_size"]
  /\ out' = get_column_size(input.serial_type)
  /\ pc' = "done"
  /\ UNCHANGED input

\* extract_text_from_serial_type(serial_type, data, pos)
ExtractText ==
  /\ pc = "ready"
  /\ input.fn = "serial_type"
  /\ call' = [NoCall EXCEPT !.op = "extract_text_from_serial_type"]
  /\ out' = extract_text_from_serial_type(input.serial_type, input.data, input.pos)
  /\ pc' = "done"
  /\ UNCHANGED input

\* Record::parse of the cell, then read_string(column_index)
ReadString ==
  /\ pc = "ready"
  /\ input.fn = "record"
  /\ \E column_index \in 0..(Len(input.columns) - 1) :
       /\ call' = [op |-> "read_string", column_index |-> column_index]
       /\ out' = Record_read_string(Record_parse(input.data, 0), column_index)
  /\ pc' = "done"
  /\ UNCHANGED input

\* Record::parse(page, cell_offset) of the cell at the start of the page or
\* after other bytes, with bytes of another cell behind it
RecordParse ==
  /\ pc = "ready"
  /\ input.fn = "record"
  /\ \E cell_offset \in {0, 3} :
       /\ call' = [op |-> "Record::parse", column_index |-> cell_offset]
       /\ out' = Record_parse([i \in 1..cell_offset |-> 255] \o input.data \o <<2, 9, 1, 8>>,
                              cell_offset)
  /\ pc' = "done"
  /\ UNCHANGED input

\* Record::parse of the cell, then read_strings of every column in order
ReadStrings ==
  /\ pc = "ready"
  /\ input.fn = "record"
  /\ call' = [op |-> "read_strings", column_index |-> 0]
  /\ out' = Record_read_strings(Record_parse(input.data, 0),
                                [i \in 1..Len(input.columns) |-> i - 1])
  /\ pc' = "done"
  /\ UNCHANGED input

NextCodec ==
  \/ ReadVarint \/ ExtractInt \/ GetColumnSize \/ ExtractText \/ ReadString
  \/ ReadStrings \/ RecordParse

SpecCodec == InitCodec /\ [][NextCodec]_vars

\* C12: read_varint on the canonical varint of a u64 x returns x and the
\* length of the encoding, which is 1 to 9 bytes.
C12_VarintRoundTrip ==
  (pc = "done" /\ call.op = "read_varint" /\ input.encoded)
  => /\ out.value = input.x
     /\ out.bytes_read = Len(CanonicalVarint(input.x))
     /\ out.bytes_read \in 1..9

\* C12's case: a value with one of its top eight bits set came back from its
\* nine bytes.
C12_Witness ==
  pc = "done" /\ call.op = "read_varint" /\ input.encoded /\ input.x[1] >= 128
  /\ input.x[8] = 255 /\ out.bytes_read = 9 /\ out.value = input.x

\* The i-th byte of the varint of the input, i from 1.
VarintByte(i) == input.data[input.pos + i]

\* C13: on a buffer with pos + 9 <= len read_varint consumes 1 to 9 bytes:
\* the bytes before the last consumed one are among the first eight and have
\* the high bit set, a last byte among the first eight has it clear, each of
\* the first eight consumed bytes gives its low seven bits and a ninth gives
\* all eight, the earlier byte the higher bits; and the bytes after the
\* consumed ones are not read: without them the result is the same.
C13_VarintDecoding ==
  (pc = "done" /\ call.op = "read_varint" /\ input.pos + 9 <= Len(input.data))
  => /\ out.bytes_read \in 1..9
     /\ \A i \in 1..(out.bytes_read - 1) : VarintByte(i) >= 128
     /\ out.bytes_read < 9 => VarintByte(out.bytes_read) < 128
     /\ out.bytes_read < 9 =>
          \A j \in 0..63 :
            Bit(out.value, j) =
              IF j < 7 * out.bytes_read
              THEN (VarintByte(out.bytes_read - (j \div 7)) \div (2 ^ (j % 7))) % 2
              ELSE 0
     /\ out.bytes_read = 9 =>
          \A j \in 0..63 :
            Bit(out.value, j) =
              IF j < 8 THEN (VarintByte(9) \div (2 ^ j)) % 2
              ELSE (VarintByte(8 - ((j - 8) \div 7)) \div (2 ^ ((j - 8) % 7))) % 2
     /\ read_varint(SubSeq(input.data, 1, input.pos + out.bytes_read), input.pos) = out

\* C13's case: eight flagged bytes and a ninth with its high bit set, which
\* is taken whole.
C13_Witness ==
  pc = "done" /\ call.op = "read_varint" /\ ~input.encoded
  /\ input.pos + 9 <= Len(input.data) /\ out.bytes_read = 9
  /\ VarintByte(9) >= 128 /\ out.value[8] = VarintByte(9)

\* C14: for serial types 3 and 5 extract_int_from_serial_type returns the i64
\* whose value is the two's-complement value of the big-endian body: for three
\* bytes the unsigned value, less 2^24 when the top bit of the first byte is
\* set; for six bytes the value whose quotient by 2^24 is the signed value of
\* the first three bytes and whose remainder is the unsigned value of the
\* last three.
C14_SignExtension ==
  (pc = "done" /\ call.op = "extract_int_from_serial_type")
  => /\ out.some
     /\ Len(out.v) = 8
     /\ input.serial_type = 3 =>
          Signed(out.v) = Unsigned(input.body)
                          - (IF input.body[1] >= 128 THEN 16777216 ELSE 0)
     /\ input.serial_type = 5 =>
          /\ Signed(SubSeq(out.v, 1, 5)) = Signed(SubSeq(input.body, 1, 3))
          /\ Unsigned(SubSeq(out.v, 6, 8)) = Unsigned(SubSeq(input.body, 4, 6))

\* C14's case: a 48-bit body with the top bit set came out negative.
C14_Witness ==
  pc = "done" /\ call.op = "extract_int_from_serial_type" /\ input.serial_type = 5
  /\ input.body = <<128, 0, 255, 0, 128, 255>> /\ out.some
  /\ out.v = <<255, 255, 128, 0, 255, 0, 128, 255>>

\* The body size of the record format for a serial type.
BodySize(n) ==
  IF n < 12 THEN <<0, 1, 2, 3, 4, 6, 8, 8, 0, 0, 0, 0>>[n + 1]
  ELSE IF n % 2 = 0 THEN (n - 12) \div 2 ELSE (n - 13) \div 2

C11_NullIsAbsent ==
  /\ (pc = "done" /\ call.op = "read_string"
      /\ input.columns[call.column_index + 1].kind \in {"null", "text", "int"})
     => out = IF input.columns[call.column_index + 1].kind = "null" THEN None
              ELSE Some(input.columns[call.column_index + 1].shown)
  /\ (pc = "done" /\ call.op = "read_strings"
      /\ \A i \in 1..Len(input.columns) :
           input.columns[i].kind \in {"null", "text", "int"})
     => out = [i \in 1..Len(input.columns) |-> input.columns[i].shown]

(***************************************************************************)
(* Specification SpecPager: Database::open and one read_page on files of   *)
(* every page size of the format.                                          *)
(***************************************************************************)

\* The page sizes of the format: the powers of two from 512 to 65536.
PageSizes == {512, 1024, 2048, 4096, 8192, 16384, 32768, 65536}

MaxPages == 2

\* The two bytes at PAGE_SIZE_OFFSET hold the page size, big-endian; the file
\* format records 65536, which two bytes cannot hold, as the value 1.
RecordedPageSize(p) == IF p = 65536 THEN 1 ELSE p

\* The byte of the file at an offset: the recorded page size in the header,
\* elsewhere a pattern that differs from page to page.
PagerByte(in, offset) ==
  IF offset = PAGE_SIZE_OFFSET THEN RecordedPageSize(in.page_size) \div 256
  ELSE IF offset = PAGE_SIZE_OFFSET + 1 THEN RecordedPageSize(in.page_size) % 256
  ELSE (offset + 3 * (offset \div 256) + in.seed) % 251

\* A file of in.pages whole pages and in.tail bytes of an unfinished page.
PagerFile(in) ==
  [i \in 1..(in.pages * in.page_size + in.tail) |-> PagerByte(in, i - 1)]

PagerInputs ==
  [page_size : PageSizes, pages : 1..MaxPages, tail : {0, 7}, seed : {0, 1}]

InitPager ==
  /\ pc = "ready"
  /\ input \in PagerInputs
  /\ call = NoCall
  /\ out = NoResult

\* let mut db = Database::open(path)?; db.read_page(page_num)
ReadPage ==
  /\ pc = "ready"
  /\ \E page_num \in 0..(input.pages + 1), overflow_checks \in BOOLEAN :
       /\ call' = [op |-> "read_page", page_num |-> page_num]
       /\ out' = LET Opened(db) == IF db.tag # "Ok" THEN db
                                   ELSE read_page(db.v, page_num)
                 IN Opened(Database_open(PagerFile(input), overflow_checks))
  /\ pc' = "done"
  /\ UNCHANGED input

NextPager == ReadPage

SpecPager == InitPager /\ [][NextPager]_vars

\* C16: for every page size of the format recorded in the header and every
\* page number n >= 1 inside the file, Database::open followed by
\* read_page(n) returns exactly the page_size bytes at offset
\* (n - 1) * page_size.
C16_ReadPageReturnsThePage ==
  (pc = "done" /\ call.op = "read_page"
   /\ call.page_num >= 1 /\ call.page_num <= input.pages)
  => /\ out.tag = "Ok"
     /\ out.v = [i \in 1..input.page_size |->
                   PagerByte(input, (call.page_num - 1) * input.page_size + i - 1)]

(***************************************************************************)
(* Specification SpecLookup: find_record_by_rowid and search_index_btree   *)
(* on well-formed tables and indexes, as select_columns_with_filter calls  *)
(* them.                                                                   *)
(***************************************************************************)

\* A cell of a table or index page with its rowid multiplied by stride, and
\* slack added to the key of an interior table cell: a table whose rowids
\* have gaps, and whose interior keys may exceed every rowid of the left
\* child (as after deletions).
SpreadCell(kind, cell, stride, slack) ==
  CASE kind = LEAF_TABLE_BTREE_PAGE -> [cell EXCEPT !.key = cell.key * stride]
    [] kind = INTERIOR_TABLE_BTREE_PAGE ->
         [cell EXCEPT !.key = cell.key * stride + slack]
    [] OTHER -> [cell EXCEPT !.values[2] = IntValue(cell.values[2].int * stride)]

\* The pages of the database of an input of SpecLookup: page 1 is the
\* catalog, the table's root is page 2.
LookupPages(in) ==
  LET Spread(descs) ==
        [p \in 1..Len(descs) |->
           IF p = 1 THEN descs[p]
           ELSE [descs[p] EXCEPT !.cells =
                   [i \in 1..Len(descs[p].cells) |->
                      SpreadCell(descs[p].kind, descs[p].cells[i], in.stride, in.slack)]]]
  IN Spread(Pages(in))

LookupFile(in) == EncodeFile(LookupPages(in))

\* The root pages the catalog records: rootpage of its first row (the table)
\* and of its second row (the index).
TableRoot(in) == LookupPages(in)[1].cells[1].values[4].int
IndexRoot(in) == LookupPages(in)[1].cells[2].values[4].int

\* The strides and slacks: rowids 1..N; rowids 100, 200, ... under keys
\* equal to the last rowid of the left child, or one more.
Spreads == {<<1, 0>>, <<100, 0>>, <<100, 1>>}

LookupInputs ==
  {[colors |-> in.colors, leaves |-> in.leaves, tall |-> in.tall,
    index |-> in.index, damage |-> in.damage, stride |-> ss[1], slack |-> ss[2]] :
     <<in, ss>> \in (ShapeInputs \cup IndexInputs) \X Spreads}

\* The rowids asked for: every rowid of the table, the one after each, and
\* rowids below the first and above the last.
TargetRowids(in) ==
  {k * in.stride + d : k \in 0..(Len(in.colors) + 1), d \in {0, 1}}

InitLookup ==
  /\ pc = "ready"
  /\ input \in LookupInputs
  /\ call = NoCall
  /\ out = NoResult

\* find_record_by_rowid(&mut db, table.rootpage, rowid) on the opened file.
FindRecordByRowid ==
  /\ pc = "ready"
  /\ \E target_rowid \in TargetRowids(input), overflow_checks \in BOOLEAN :
       /\ call' = [op |-> "find_record_by_rowid", target_rowid |-> target_rowid]
       /\ out' = LET Opened(db) ==
                       IF db.tag # "Ok" THEN db
                       ELSE find_record_by_rowid(db.v, TableRoot(input), target_rowid,
                                                 NumPages(db.v) + 1)
                 IN Opened(Database_open(LookupFile(input), overflow_checks))
  /\ pc' = "done"
  /\ UNCHANGED input

\* let matching_rowids = search_index_btree(&mut db, index.rootpage,
\* &filter_value)?, then find_record_by_rowid(&mut db, table.rootpage, rowid)
\* for every rowid of matching_rowids: found holds what each returned.
SearchIndexBtree ==
  /\ pc = "ready"
  /\ input.index.kind # "none"
  /\ \E value \in FilterValues, overflow_checks \in BOOLEAN :
       /\ call' = [op |-> "search_index_btree", value |-> value]
       /\ out' = LET Opened(db) ==
                       LET Searched(matching_rowids) ==
                             [tag |-> matching_rowids.tag, v |-> matching_rowids.v,
                              reads |-> matching_rowids.reads,
                              found |->
                                IF matching_rowids.tag # "Ok" THEN <<>>
                                ELSE [i \in 1..Len(matching_rowids.v) |->
                                        find_record_by_rowid(db.v, TableRoot(input),
                                            matching_rowids.v[i], NumPages(db.v) + 1)]]
                       IN IF db.tag # "Ok" THEN db
                          ELSE Searched(search_index_btree(db.v, IndexRoot(input), value,
                                                           NumPages(db.v) + 1))
                 IN Opened(Database_open(LookupFile(input), overflow_checks))
  /\ pc' = "done"
  /\ UNCHANGED input

NextLookup == FindRecordByRowid \/ SearchIndexBtree

SpecLookup == InitLookup /\ [][NextLookup]_vars

\* The pages a descent for target visits, by the page descriptions: from an
\* interior page to the left child of the first cell with key >= target, or
\* to the rightmost child when there is none.
RECURSIVE RowidPath(_, _, _)
RowidPath(descs, page, target) ==
  IF descs[page].kind # INTERIOR_TABLE_BTREE_PAGE THEN <<page>>
  ELSE LET cells == descs[page].cells
           hits == {i \in 1..Len(cells) : cells[i].key >= target}
       IN <<page>> \o RowidPath(descs,
                                IF hits # {} THEN cells[Min(hits)].left
                                ELSE descs[page].right,
                                target)

\* C17: on a well-formed table B-tree find_record_by_rowid reads the pages
\* of the descent that takes, on each interior page, the left child of the
\* first cell whose key >= target, else the rightmost child; it returns the
\* cell whose rowid is target (the row of that rowid) when the table holds
\* it, and None otherwise.
C17_RowidLookup ==
  (pc = "done" /\ call.op = "find_record_by_rowid")
  => /\ out.tag = "Ok"
     /\ out.reads = RowidPath(LookupPages(input), TableRoot(input),
                             call.target_rowid)
     /\ IF \E i \in 1..Len(input.colors) : i * input.stride = call.target_rowid
        THEN /\ out.v.some
             /\ Record_parse(out.v.v.page_data, out.v.v.offset).rowid
                  = call.target_rowid
             /\ Record_read_string(Record_parse(out.v.v.page_data, out.v.v.offset), 1)
                  = Some(NameOf(call.target_rowid \div input.stride))
        ELSE out.v = None

\* C17's case: a row found at the bottom of a tree of three levels whose
\* interior keys exceed the rowids under them.
C17_Witness ==
  pc = "done" /\ call.op = "find_record_by_rowid" /\ input.tall /\ input.slack = 1
  /\ out.tag = "Ok" /\ out.v.some /\ Len(out.reads) = 3
  /\ call.target_rowid = 3 * input.stride

\* C18: every rowid search_index_btree returns for a value, on a well-formed
\* index consistent with its table, is the rowid of a record that
\* find_record_by_rowid finds in the table, and the indexed column of that
\* record decodes to the value.
C18_IndexedRowsMatch ==
  (pc = "done" /\ call.op = "search_index_btree")
  => /\ out.tag = "Ok"
     /\ \A i \in 1..Len(out.v) :
          /\ out.found[i].tag = "Ok"
          /\ out.found[i].v.some
          /\ Record_parse(out.found[i].v.v.page_data, out.found[i].v.v.offset).rowid
               = out.v[i]
          /\ Record_read_string(Record_parse(out.found[i].v.v.page_data,
                                             out.found[i].v.v.offset), 2)
               = Some(call.value)

\* C18's case: several rowids returned from the leaves under an interior
\* index page, in a table whose rowids are not 1..N.
C18_Witness ==
  pc = "done" /\ call.op = "search_index_btree" /\ input.index.kind = "interior"
  /\ input.stride > 1 /\ out.tag = "Ok" /\ Len(out.v) >= 2
  /\ \A i \in 1..Len(out.v) : out.found[i].v.some

(***************************************************************************)
(* Specification SpecDdl: parse_column_names on CREATE TABLE statements.   *)
(***************************************************************************)

kGrade == S(<<"g", "r", "a", "d", "e">>)
kLiteralRest == S(<<"b", "'">>)

\* A column definition as a statement spells it: the name of the column,
\* the text of the definition, and the first whitespace-delimited token of
\* each comma-separated piece of that text.
ColumnDef(name, text, tokens) == [name |-> name, text |-> text, tokens |-> tokens]

\* Definitions without parentheses: a name alone, a name and a type, a
\* definition with constraints, definitions with blanks, tabs and newlines
\* around and inside them, and a definition whose default value is a string
\* literal that holds a comma.
ColumnDefs ==
  {ColumnDef(kId, S(<<"i", "d", " ", "i", "n", "t", "e", "g", "e", "r",
                        " ", "p", "r", "i", "m", "a", "r", "y", " ", "k",
                        "e", "y">>), <<kId>>),
   ColumnDef(kName, S(<<"n", "a", "m", "e">>), <<kName>>),
   ColumnDef(kColor, <<32>> \o S(<<"c", "o", "l", "o", "r", " ", " ", "t",
                                  "e", "x", "t", " ", "n", "o", "t", " ",
                                  "n", "u", "l", "l">>) \o <<32>>, <<kColor>>),
   ColumnDef(kSize,
             <<10, 9>> \o S(<<"s", "i", "z", "e", " ", "i", "n", "t">>) \o <<13, 10>>,
             <<kSize>>),
   ColumnDef(kGrade,
             S(<<"g", "r", "a", "d", "e", " ", "t", "e", "x", "t", " ",
                 "d", "e", "f", "a", "u", "l", "t", " ", "'", "a", ",",
                 "b", "'">>),
             <<kGrade, kLiteralRest>>)}

\* The definitions of ColumnDefs with no comma inside a literal.
PlainDef(def) == def.tokens = <<def.name>>

MaxDefs == 3

CreateHeads ==
  {S(<<"C", "R", "E", "A", "T", "E", " ", "T", "A", "B", "L", "E", " ",
       "t", " ", "(">>),
   S(<<"C", "R", "E", "A", "T", "E", " ", "T", "A", "B", "L", "E", " ",
       "t", "(">>),
   S(<<"c", "r", "e", "a", "t", "e", " ", "t", "a", "b", "l", "e", " ",
       "a", "p", "p", "l", "e", "s">>) \o <<10>>
     \o S(<<"(">>)}

CreateTails == {S(<<")">>), <<10>> \o S(<<")", ";">>)}

RECURSIVE JoinDefs(_)
JoinDefs(defs) ==
  IF Len(defs) = 1 THEN defs[1].text
  ELSE defs[1].text \o S(<<",">>) \o JoinDefs(Tail(defs))

DdlInputs ==
  {[defs |-> defs, create_sql |-> head \o JoinDefs(defs) \o tail] :
     <<defs, head, tail>> \in
       (UNION {[1..n -> ColumnDefs] : n \in 1..MaxDefs}) \X CreateHeads \X CreateTails}

InitDdl ==
  /\ pc = "ready"
  /\ input \in DdlInputs
  /\ call = NoCall
  /\ out = NoResult

\* parse_column_names(create_sql)
ParseColumnNames ==
  /\ pc = "ready"
  /\ call' = [NoCall EXCEPT !.op = "parse_column_names"]
  /\ out' = parse_column_names(input.create_sql)
  /\ pc' = "done"
  /\ UNCHANGED input

NextDdl == ParseColumnNames

SpecDdl == InitDdl /\ [][NextDdl]_vars

DB_HEADER_SIZE == 100
PAGE_HEADER_SIZE == 112

\* read_page_size: read_exact of the DB_HEADER_SIZE bytes of the header,
\* then the u16 at PAGE_SIZE_OFFSET.
read_page_size(file) ==
  IF Len(file) < DB_HEADER_SIZE THEN Err("Failed to read database header", <<>>)
  ELSE Ok(U16At(file, PAGE_SIZE_OFFSET), <<>>)

\* read_db_info: Ok(<<page_size, number_of_tables>>); the page header is the
\* PAGE_HEADER_SIZE bytes the file holds after the database header.
read_db_info(file) ==
  LET PageSize_(page_size) ==
        IF page_size.tag # "Ok" THEN page_size
        ELSE IF Len(file) < DB_HEADER_SIZE + PAGE_HEADER_SIZE
        THEN Err("Failed to read page header", <<>>)
        ELSE Ok(<<page_size.v, U16At(file, DB_HEADER_SIZE + CELL_COUNT_OFFSET)>>, <<>>)
  IN PageSize_(read_page_size(file))

\* commands::dbinfo.  What a command returns and prints is a SqlOutcome:
\* called names the function of commands.rs that main handed the arguments to.
dbinfo(file) ==
  LET Info(info) ==
        SqlOutcome(info, "dbinfo",
                   IF info.tag # "Ok" THEN <<>>
                   ELSE <<S(<<"d", "a", "t", "a", "b", "a", "s", "e", " ", "p", "a",
                              "g", "e", " ", "s", "i", "z", "e", ":", " ">>)
                            \o to_string(info.v[1]),
                          S(<<"n", "u", "m", "b", "e", "r", " ", "o", "f", " ", "t",
                              "a", "b", "l", "e", "s", ":", " ">>)
                            \o to_string(info.v[2])>>)
  IN Info(read_db_info(file))

\* commands::table.
table(file, overflow_checks) ==
  LET Listed(table_names) ==
        SqlOutcome(table_names, "table",
                   IF table_names.tag # "Ok" THEN <<>>
                   ELSE <<join(table_names.v, S(<<" ">>))>>)
  IN Listed(read_table_names(file, overflow_checks))

\* main on the arguments args (args[1] is the program's name, args[2] the
\* path of the file, args[3] the command).
main(args, file, overflow_checks) ==
  IF Len(args) <= 1
  THEN SqlOutcome(Err("Missing <database path> and <command>", <<>>), "", <<>>)
  ELSE IF Len(args) = 2 THEN SqlOutcome(Err("Missing <command>", <<>>), "", <<>>)
  ELSE IF args[3] = S(<<".", "d", "b", "i", "n", "f", "o">>) THEN dbinfo(file)
  ELSE IF args[3] = S(<<".", "t", "a", "b", "l", "e">>)
  THEN table(file, overflow_checks)
  ELSE SqlOutcome(Err("Missing or invalid command passed", <<>>), "", <<>>)

(***************************************************************************)
(* Specification SpecMain: the program run once on a command line.         *)
(***************************************************************************)

kDotDbinfo == S(<<".", "d", "b", "i", "n", "f", "o">>)
kDotTable == S(<<".", "t", "a", "b", "l", "e">>)
kDotTables == S(<<".", "t", "a", "b", "l", "e", "s">>)
kProgram == S(<<"s", "q", "l", "i", "t", "e">>)
kPath == S(<<"s", "a", "m", "p", "l", "e", ".", "d", "b">>)
kSchema == S(<<".", "s", "c", "h", "e", "m", "a">>)
kCountQuery ==
  S(<<"S", "E", "L", "E", "C", "T", " ", "C", "O", "U", "N", "T", "(", "*",
      ")", " ", "F", "R", "O", "M", " ", "a", "p", "p", "l", "e", "s">>)
kSelectQuery ==
  S(<<"S", "E", "L", "E", "C", "T", " ", "n", "a", "m", "e", " ", "F", "R",
      "O", "M", " ", "a", "p", "p", "l", "e", "s">>)

\* The command lines: too few arguments, each command the program or its
\* description names, a query, an unknown dot command, an empty command,
\* and a command followed by one more argument.
CommandLines ==
  {<<kProgram>>, <<kProgram, kPath>>}
  \cup {<<kProgram, kPath, command>> :
          command \in {kDotDbinfo, kDotTable, kDotTables, kSchema, kCountQuery,
                       kSelectQuery, <<>>}}
  \cup {<<kProgram, kPath, kDotDbinfo, kDotTables>>}

\* The files: the catalogs of SpecSchema, whole, cut inside the database
\* header, and cut inside the header of page 1.
MainInputs ==
  {[entries |-> in.entries, interior |-> in.interior, cut |-> cut] :
     <<in, cut>> \in CatalogInputs \X {"none", "database header", "page header"}}

MainFile(in) ==
  CASE in.cut = "none" -> CatalogFile(in)
    [] in.cut = "database header" -> SubSeq(CatalogFile(in), 1, DB_HEADER_SIZE - 1)
    [] in.cut = "page header" ->
         SubSeq(CatalogFile(in), 1, DB_HEADER_SIZE + PAGE_HEADER_SIZE - 1)

InitMain ==
  /\ pc = "ready"
  /\ input \in MainInputs
  /\ call = NoCall
  /\ out = NoResult

\* main, and the exit status of the process for what main returns: 0 for
\* Ok(()), 1 for an Err, 101 for a panic, 134 (abort) for an exhausted stack.
Main ==
  /\ pc = "ready"
  /\ \E args \in CommandLines, overflow_checks \in BOOLEAN :
       /\ call' = [op |-> "main", args |-> args]
       /\ out' = LET Exit(r) ==
                       [tag |-> r.tag, v |-> r.v, reads |-> r.reads,
                        called |-> r.called, printed |-> r.printed,
                        exit |-> CASE r.tag = "Ok" -> 0
                                   [] r.tag = "Err" -> 1
                                   [] r.tag = "Panic" -> 101
                                   [] OTHER -> 134]
                 IN Exit(main(args, MainFile(input), overflow_checks))
  /\ pc' = "done"
  /\ UNCHANGED input

NextMain == Main

SpecMain == InitMain /\ [][NextMain]_vars

\* C20: main hands the command .dbinfo to the database-info operation,
\* .tables to the listing of the user tables and every command that does not
\* begin with a dot to sql, the query planner; every failure ends in a
\* non-zero exit status.
C20_Dispatch ==
  (pc = "done" /\ call.op = "main")
  => /\ Len(call.args) >= 3
        => /\ call.args[3] = kDotDbinfo => out.called = "dbinfo"
           /\ call.args[3] = kDotTables => out.called = "table"
           /\ (call.args[3] # <<>> /\ call.args[3][1] # AsciiCode["."])
              => out.called = "sql"
     /\ out.tag # "Ok" => out.exit # 0
     /\ out.exit = 0 => out.tag = "Ok"

(***************************************************************************)
(* Claims on the index path and on the traversals                          *)
(***************************************************************************)

\* The rowids search_index_btree yields for the value of the call, on the
\* index the catalog of the input records.
YieldedRowids ==
  LET Opened(db) ==
        search_index_btree(db, Pages(input)[1].cells[2].values[4].int, call.value,
                           NumPages(db) + 1).v
  IN Opened(Database_open(File(input), FALSE).v)

\* C21: on a well-formed index, the index path of select_columns_with_filter
\* emits one row per rowid search_index_btree yields, in the order it yields
\* them, and that order is ascending rowid order.
C21_IndexRowsInRowidOrder ==
  (Done("select_columns_with_filter") /\ input.damage = NoDamage
   /\ input.index.kind # "none" /\ call.column_names = <<kId, kName>>)
  => /\ out.tag = "Ok"
     /\ out.v = [i \in 1..Len(YieldedRowids) |->
                   <<to_string(YieldedRowids[i]), NameOf(YieldedRowids[i])>>]
     /\ \A i, j \in 1..Len(YieldedRowids) :
          i < j => YieldedRowids[i] < YieldedRowids[j]

\* C21's case: rows emitted from both leaves under an interior index page.
C21_Witness ==
  Done("select_columns_with_filter") /\ input.damage = NoDamage
  /\ input.index.kind = "interior" /\ call.column_names = <<kId, kName>>
  /\ out.tag = "Ok" /\ Len(out.v) = 3

(***************************************************************************)
(* Specification SpecIndexPage: search_index_btree from an interior index  *)
(* page of one to MaxCells cells over leaf pages.                          *)
(***************************************************************************)

MaxCells == 3

\* Keys in ascending string order: a key, one it is a proper prefix of, and
\* two that differ in a later character.
IndexKeys ==
  <<S(<<"P", "i", "n">>), S(<<"P", "i", "n", "k">>), S(<<"R", "e", "d">>),
    S(<<"R", "e", "x">>)>>

\* The search values: the keys, the empty string, a value between two keys
\* and one above every key.
SearchValues ==
  {IndexKeys[k] : k \in 1..Len(IndexKeys)}
  \cup {<<>>, S(<<"P", "i", "n", "l">>), S(<<"Z", "e", "d">>)}

\* The keys of the cells of a page, by their numbers in IndexKeys: ascending,
\* equal keys allowed (the entries of one value may span pages).
CellKeys ==
  {ks \in UNION {[1..n -> 1..Len(IndexKeys)] : n \in 1..MaxCells} :
     \A i \in 1..(Len(ks) - 1) : ks[i] <= ks[i + 1]}

\* The pages of the file: page 1 an empty catalog, page 2 the interior index
\* page with cell i = (left child 2 + i, key, rowid 10 * i) and the rightmost
\* child on the page after the last left child, then the leaves, leaf i
\* holding one entry of the key of cell i (the key of the last cell on the
\* rightmost leaf).
IndexPageDescs(ks) ==
  <<PageDesc(LEAF_TABLE_BTREE_PAGE, <<>>, 0),
    PageDesc(INTERIOR_INDEX_BTREE_PAGE,
             [i \in 1..Len(ks) |->
                Cell(2 + i, 0, <<TextValue(IndexKeys[ks[i]]), IntValue(10 * i)>>)],
             3 + Len(ks))>>
  \o [j \in 1..(Len(ks) + 1) |->
        PageDesc(LEAF_INDEX_BTREE_PAGE,
                 <<Cell(0, 0, <<TextValue(IndexKeys[ks[IF j <= Len(ks) THEN j ELSE Len(ks)]]),
                                IntValue(10 * j - 5)>>)>>,
                 0)]

InitIndexPage ==
  /\ pc = "ready"
  /\ input \in {[keys |-> ks] : ks \in CellKeys}
  /\ call = NoCall
  /\ out = NoResult

\* search_index_btree(&mut db, 2, search_value) on the opened file
SearchIndexChildren ==
  /\ pc = "ready"
  /\ \E value \in SearchValues, overflow_checks \in BOOLEAN :
       /\ call' = [op |-> "search_index_btree", value |-> value]
       /\ out' = LET Opened(db) ==
                       IF db.tag # "Ok" THEN db
                       ELSE search_index_btree(db.v, 2, value, NumPages(db.v) + 1)
                 IN Opened(Database_open(EncodeFile(IndexPageDescs(input.keys)),
                                         overflow_checks))
  /\ pc' = "done"
  /\ UNCHANGED input

NextIndexPage == SearchIndexChildren

SpecIndexPage == InitIndexPage /\ [][NextIndexPage]_vars

\* The children the search is to recurse into from page 2: the left child of
\* every cell with value <= key, in cell order, then the rightmost child
\* when value >= the key of the last cell.
ChildrenToVisit(ks, value) ==
  SelectSeq([i \in 1..Len(ks) |-> 2 + i], LAMBDA c : StrLe(value, IndexKeys[ks[c - 2]]))
  \o (IF StrLe(IndexKeys[ks[Len(ks)]], value) THEN <<3 + Len(ks)>> ELSE <<>>)

\* C22: on an interior index page whose keys are all text, search_index_btree
\* reads, after the page, exactly the left children of the cells with
\* value <= key, in cell order, then the rightmost child when value >= the
\* last key, and no child twice.
C22_ChildrenSearched ==
  (pc = "done" /\ call.op = "search_index_btree")
  => /\ out.tag = "Ok"
     /\ out.reads = <<2>> \o ChildrenToVisit(input.keys, call.value)
     /\ \A i, j \in 1..Len(out.reads) : i # j => out.reads[i] # out.reads[j]

\* C22's case: a value equal to the key of the last of three cells, found on
\* the left child of that cell and on the rightmost child.
C22_Witness ==
  pc = "done" /\ call.op = "search_index_btree" /\ input.keys = <<1, 2, 3>>
  /\ call.value = IndexKeys[3] /\ out.reads = <<2, 5, 6>> /\ out.v = <<25, 35>>

\* The sum of the first n numbers of a sequence.
RECURSIVE SumOfFirst(_, _)
SumOfFirst(seq, n) == IF n = 0 THEN 0 ELSE seq[n] + SumOfFirst(seq, n - 1)

\* C23: on a well-formed leaf-table cell Record::parse reads the serial
\* types of the header and stops where the header ends, record_start +
\* header_size; column offset i is the sum of get_column_size over the serial
\* types before column i (the sum of the lengths of the bodies before it);
\* and the bytes consumed are the payload-size varint, the rowid varint and
\* the payload.
C23_RecordParse ==
  (pc = "done" /\ call.op = "Record::parse")
  => LET codes == [i \in 1..Len(input.columns) |-> input.columns[i].code]
         sizes == [i \in 1..Len(input.columns) |-> Len(input.columns[i].body)]
         header == ConcatAll([i \in 1..Len(codes) |-> EncodeVarint(codes[i])])
         payload == 1 + Len(header) + SumOfFirst(sizes, Len(sizes))
         varints == Len(EncodeVarint(payload)) + Len(EncodeVarint(input.rowid))
     IN /\ out.serial_types = codes
        /\ out.rowid = input.rowid
        /\ out.consumed - Len(out.data) = varints + 1 + Len(header)
        /\ out.column_offsets = [i \in 1..Len(codes) |-> SumOfFirst(sizes, i - 1)]
        /\ \A i \in 1..Len(codes) :
             out.column_offsets[i]
             = SumOfFirst([j \in 1..Len(codes) |-> get_column_size(codes[j])], i - 1)
        /\ out.data = ConcatAll([i \in 1..Len(sizes) |-> input.columns[i].body])
        /\ out.consumed = varints + payload
        /\ out.consumed = Len(input.data)

\* C23's case: a cell in the middle of a page whose payload size, rowid and
\* serial types take two bytes each.
C23_Witness ==
  pc = "done" /\ call.op = "Record::parse" /\ call.column_index = 3
  /\ input.rowid = 300 /\ out.serial_types = <<153, 153>> /\ out.consumed = 149
  /\ out.column_offsets = <<0, 70>>

\* C24: no query reads page 0: on every file and in every one of the three
\* queries, the pages read (by the full scan, by the rowid lookup and by
\* the index search) never include page 0, a child pointer of 0 being
\* skipped instead of descended into.
C24_PageZeroNeverRead ==
  (pc = "done" /\ call.op \in {"count_table_rows", "select_columns",
                               "select_columns_with_filter"})
  => 0 \notin Range(out.reads)

(***************************************************************************)
(* Specification SpecTraverse: one traversal (traverse_btree_table,        *)
(* find_record_by_rowid or search_index_btree), one call at a step.  The   *)
(* program is sequential: a call that has started takes its next step, so  *)
(* the steps are weakly fair.  call.stack is the call stack: one frame for  *)
(* every call in progress, holding the children its loop has still to       *)
(* descend into, under a first frame holding the root.                      *)
(***************************************************************************)

\* The frames the stack holds; a call that needs one more overflows it.
MaxDepth == 6

\* The pointers of the interior pages, of the table tree and of the index
\* tree, of an undamaged database.
TreePointers(in) ==
  LET Pointers(descs) ==
        {<<p, slot>> \in (1..Len(descs)) \X (1..(MaxRows + 1)) :
           /\ descs[p].kind \in {INTERIOR_TABLE_BTREE_PAGE, INTERIOR_INDEX_BTREE_PAGE}
           /\ slot <= Len(descs[p].cells) + 1}
  IN Pointers(Pages([in EXCEPT !.damage = NoDamage]))

\* The root of the tree page p of the database belongs to.
RootOf(in, p) ==
  LET Root(descs) ==
        IF descs[p].kind = INTERIOR_TABLE_BTREE_PAGE THEN descs[1].cells[1].values[4].int
        ELSE descs[1].cells[2].values[4].int
  IN Root(Pages([in EXCEPT !.damage = NoDamage]))

\* The databases with one child pointer referring to its own page or to
\* the root of its tree.
Looped(in) ==
  {[in EXCEPT !.damage = LoopPointer(ps[1], ps[2], to)] :
     <<ps, to>> \in {pt \in TreePointers(in) \X (1..PageCount(in)) :
                       pt[2] \in {pt[1][1], RootOf(in, pt[1][1])}}}

TraverseBases ==
  {in \in ShapeInputs : Len(in.leaves) >= 2}
  \cup {in \in IndexInputs : in.colors = Alternating(MaxRows)}

TraverseInputs == TraverseBases \cup UNION {Looped(in) : in \in TraverseBases}

InitTraverse ==
  /\ pc = "ready"
  /\ input \in TraverseInputs
  /\ call = NoCall
  /\ out = NoResult

\* The pages of the tree op traverses: the table's or the index's.
TreeOf(in, op) ==
  LET Kinds == IF op = "search_index_btree"
               THEN {INTERIOR_INDEX_BTREE_PAGE, LEAF_INDEX_BTREE_PAGE}
               ELSE {INTERIOR_TABLE_BTREE_PAGE, LEAF_TABLE_BTREE_PAGE}
      Of(descs) == {n \in 2..Len(descs) : descs[n].kind \in Kinds}
  IN Of(Pages(in))

\* The first call of a traversal, on the root page of the tree, as the
\* queries make it: traverse_btree_table(&mut db, table.rootpage, ..),
\* find_record_by_rowid(&mut db, table.rootpage, rowid),
\* search_index_btree(&mut db, index.rootpage, &filter_value).  No operation
\* writes the file, so what a call on a page does is fixed from here on:
\* call.on[n] holds it for page n of the tree: the call reads the page, and
\* fails, or finds a leaf page (no children), or finds the children of an
\* interior page that it descends into, in order.
TraverseCall ==
  /\ pc = "ready"
  /\ \E op \in {"traverse_btree_table", "find_record_by_rowid", "search_index_btree"},
        target_rowid \in 1..MaxRows, value \in FilterValues, overflow_checks \in BOOLEAN :
       /\ op = "search_index_btree" => input.index.kind # "none"
       /\ op # "find_record_by_rowid" => target_rowid = 1
       /\ op # "search_index_btree" => value = Colors[1]
       /\ call' = LET Chosen(child_to_search) ==
                        IF child_to_search.some THEN <<child_to_search.v>> ELSE <<>>
                      ChildrenToDescend(page) ==
                        CASE op = "traverse_btree_table" -> TableChildPages(page)
                          [] op = "find_record_by_rowid" ->
                               Chosen(RowidChild(page, target_rowid))
                          [] op = "search_index_btree" ->
                               IndexChildrenToSearch(page, value)
                      Loaded(p) ==
                        IF p.tag # "Ok" THEN [tag |-> p.tag, v |-> p.v, children |-> <<>>]
                        ELSE [tag |-> "Ok", v |-> 0,
                              children |-> IF is_leaf(p.v) THEN <<>>
                                           ELSE ChildrenToDescend(p.v)]
                      Opened(db) ==
                        [op |-> op, target_rowid |-> target_rowid, value |-> value,
                         on |-> [n \in TreeOf(input, op) |-> Loaded(LoadPage(db, n))],
                         stack |-> <<<<IF op = "search_index_btree"
                                       THEN Pages(input)[1].cells[2].values[4].int
                                       ELSE Pages(input)[1].cells[1].values[4].int>>>>]
                  IN Opened(Database_open(File(input), overflow_checks).v)
  /\ pc' = "running"
  /\ UNCHANGED <<input, out>>

\* One step of the traversal: the call on top of the stack returns when its
\* loop has no child left (the traversal returns Ok when it was the first
\* call); else it calls the function on its next child, and that call
\* reads the page, returns at once on an error (which `?` hands up to the
\* first caller) or on a leaf page, and on an interior page starts its own
\* loop in a new frame.  With MaxDepth frames on the stack a new frame
\* overflows it, and the process is killed with no result and no error.
TraverseStep ==
  /\ pc = "running"
  /\ LET Step(frames, top) ==
           IF top = <<>>
           THEN /\ call' = [call EXCEPT !.stack = frames]
                /\ pc' = IF frames = <<>> THEN "done" ELSE "running"
                /\ out' = IF frames = <<>> THEN [out EXCEPT !.tag = "Ok"] ELSE out
           ELSE LET Called(p) ==
                      IF p.tag # "Ok"
                      THEN /\ pc' = "done"
                           /\ out' = [tag |-> p.tag, v |-> p.v,
                                      reads |-> Append(out.reads, Head(top))]
                           /\ call' = [call EXCEPT !.stack = <<>>]
                      ELSE IF p.children = <<>>
                      THEN /\ pc' = "running"
                           /\ out' = [out EXCEPT !.reads = Append(out.reads, Head(top))]
                           /\ call' = [call EXCEPT !.stack = Append(frames, Tail(top))]
                      ELSE IF Len(frames) + 2 > MaxDepth
                      THEN /\ pc' = "stack overflow"
                           /\ out' = [out EXCEPT !.reads = Append(out.reads, Head(top))]
                           /\ call' = call
                      ELSE /\ pc' = "running"
                           /\ out' = [out EXCEPT !.reads = Append(out.reads, Head(top))]
                           /\ call' = [call EXCEPT !.stack =
                                         Append(Append(frames, Tail(top)), p.children)]
                IN Called(call.on[Head(top)])
     IN Step(SubSeq(call.stack, 1, Len(call.stack) - 1), call.stack[Len(call.stack)])
  /\ UNCHANGED input

NextTraverse == TraverseCall \/ TraverseStep

SpecTraverse == InitTraverse /\ [][NextTraverse]_vars /\ WF_vars(TraverseStep)

\* C25: every traversal (traverse_btree_table, find_record_by_rowid,
\* search_index_btree) that has started ends, with a result or with an
\* error, on every file, also on one where a child pointer of an interior
\* page refers to the page itself or to an ancestor.
C25_TraversalsTerminate == (pc = "running") ~> (pc = "done")

(***************************************************************************)
(* Specification SpecFilter: select_columns_with_filter run once, with a   *)
(* WHERE clause on the column id or on the column color, on a table        *)
(* without an index (the full scan).                                       *)
(***************************************************************************)

\* <column> = '<value>'
Where(column, value) == column \o S(<<" ", "=", " ", "'">>) \o value \o S(<<"'">>)

\* The values compared with: a color, a color no row has, and the numbers
\* from 0 to one past the last rowid.
WhereValues == FilterValues \cup {to_string(n) : n \in 0..(MaxRows + 1)}

InitFilter ==
  /\ pc = "ready"
  /\ input \in ShapeInputs
  /\ call = NoCall
  /\ out = NoResult

\* select_columns_with_filter(path, "apples", ["id", "name"], "<column> = '<value>'")
SelectByColumn ==
  /\ pc = "ready"
  /\ \E column \in {kId, kColor}, value \in WhereValues, overflow_checks \in BOOLEAN :
       /\ call' = [op |-> "select_columns_with_filter", table_name |-> kApples,
                   column_names |-> <<kId, kName>>, column |-> column, value |-> value]
       /\ out' = select_columns_with_filter(File(input), overflow_checks, kApples,
                                            <<kId, kName>>, Where(column, value))
  /\ pc' = "done"
  /\ UNCHANGED input

NextFilter == SelectByColumn

SpecFilter == InitFilter /\ [][NextFilter]_vars

\* The row of rowid as the query emits it for the columns id and name.
EmittedRow(rowid) == <<to_string(rowid), NameOf(rowid)>>

\* Whether the record of rowid stores NULL in the column.
StoresNull(in, rowid, column) ==
  RowValues(in.colors, rowid)[IF column = kId THEN 1 ELSE 3] = NullValue

\* C26: on the full-scan path, whatever the value of the WHERE clause (also
\* '0'), every emitted row is of a record whose filter column is not NULL.
C26_NullNeverMatches ==
  Done("select_columns_with_filter")
  => /\ out.tag = "Ok"
     /\ \A i \in 1..Len(out.v) :
          \E rowid \in 1..Len(input.colors) :
            /\ out.v[i] = EmittedRow(rowid)
            /\ ~StoresNull(input, rowid, call.column)

\* C27: for a table with the column id INTEGER PRIMARY KEY and no index,
\* WHERE id = '<n>' returns exactly the row of rowid n, and no row when no
\* row has that rowid.
C27_IdFilterIsRowid ==
  (Done("select_columns_with_filter") /\ call.column = kId)
  => /\ out.tag = "Ok"
     /\ out.v = SelectSeq([rowid \in 1..Len(input.colors) |-> EmittedRow(rowid)],
                          LAMBDA row : row[1] = call.value)

(***************************************************************************)
(* Specification SpecWhere: parse_where_clause applied to the text         *)
(* <column> = '<literal>'.                                                 *)
(***************************************************************************)

\* The longest literal.
MaxLiteral == 3

\* The characters of the literals: a letter, a digit, a space and '='; no
\* single quote.
LiteralChars == {AsciiCode["a"], AsciiCode["0"], AsciiCode[" "], AsciiCode["="]}

Literals == UNION {[1..n -> LiteralChars] : n \in 0..MaxLiteral}

InitWhere ==
  /\ pc = "ready"
  /\ input \in [column : {kId, kName, kColor}, literal : Literals]
  /\ call = NoCall
  /\ out = NoResult

\* parse_where_clause(where_clause)
ParseWhereClause ==
  /\ pc = "ready"
  /\ call' = [op |-> "parse_where_clause",
              where_clause |-> Where(input.column, input.literal)]
  /\ out' = parse_where_clause(Where(input.column, input.literal))
  /\ pc' = "done"
  /\ UNCHANGED input

NextWhere == ParseWhereClause

SpecWhere == InitWhere /\ [][NextWhere]_vars

\* C28: for every column name c and every literal v without a single quote
\* (also the empty literal, and a literal containing '='),
\* parse_where_clause on the text c = 'v' returns the pair (c, v).
C28_WhereClauseParsed ==
  (pc = "done" /\ call.op = "parse_where_clause")
  => /\ out.tag = "Ok"
     /\ out.v = [column |-> input.column, value |-> input.literal]

\* C29: read_schema yields one entry for every row of the catalog, in cell
\* order, also when page 1 is an interior page over the leaves holding the
\* rows, and read_table_names then sees the rows of every leaf.  (Catalogs
\* whose rows all have a non-empty type and tbl_name.)
C29_SchemaReadsEveryRow ==
  (pc = "done" /\ call.op \in {"read_schema", "read_table_names"}
   /\ NamedRows = CatalogRows)
  => /\ out.tag = "Ok"
     /\ call.op = "read_schema" =>
          /\ Len(out.v) = Len(CatalogRows)
          /\ \A i \in 1..Len(CatalogRows) :
               /\ out.v[i].entry_type = CatalogRows[i].type.text
               /\ out.v[i].tbl_name = CatalogRows[i].tbl_name.text
     /\ call.op = "read_table_names" => out.v = UserTableNames

(***************************************************************************)
(* Specification SpecSession: one Database, opened, and a sequence of      *)
(* read_page calls on it.  The Database holds the open file, whose state   *)
(* is its cursor, and page_size; the bytes of the file are the input's.    *)
(***************************************************************************)

\* The read_page calls of a session.
MaxCalls == 3

\* overflow_checks is the build's choice, the same for the whole session.
SessionInputs ==
  [page_size : {512, 1024}, pages : 1..MaxPages, tail : {0, 7}, seed : {0},
   overflow_checks : BOOLEAN]

\* Database::open: the cursor is behind the two bytes read at
\* PAGE_SIZE_OFFSET, page_size is their big-endian value.
OpenedDatabase(in) ==
  [pos |-> PAGE_SIZE_OFFSET + 2, page_size |-> U16At(PagerFile(in), PAGE_SIZE_OFFSET)]

InitSession ==
  /\ pc = "open"
  /\ input \in SessionInputs
  /\ call = [op |-> "Database::open", page_num |-> 0, history |-> <<>>,
             db |-> OpenedDatabase(input)]
  /\ out = NoResult

\* Database_read_page with a seek that moves the cursor by page_offset from
\* where it is.
Database_read_page_Relative(file, db, overflow_checks, page_num) ==
  LET Sought(pos) ==
        IF pos + db.page_size > Len(file)
        THEN [r |-> Err("Failed to read page", <<page_num>>),
              db |-> [db EXCEPT !.pos = Max({pos, Len(file)})]]
        ELSE [r |-> Ok(Slice(file, pos, pos + db.page_size), <<page_num>>),
              db |-> [db EXCEPT !.pos = pos + db.page_size]]
  IN IF page_num = 0
     THEN [r |-> IF overflow_checks
                 THEN Panic("attempt to subtract with overflow", <<0>>)
                 ELSE Err("Failed to seek to page", <<0>>),
           db |-> db]
     ELSE Sought(db.pos + (page_num - 1) * db.page_size)

\* Database::read_page on the Database db over the bytes file: the result r
\* and the Database after the call.  For page_num = 0 the subtraction
\* overflows: a panic with overflow checks on; without them the offset wraps
\* to 2^64 - page_size, which seek refuses, leaving the cursor.  Else
\* seek(SeekFrom::Start(page_offset)) puts the cursor at page_offset, and
\* read_exact moves it over the bytes it read, to the end of the file when
\* they run out.
Database_read_page(file, db, overflow_checks, page_num) ==
  LET Sought(pos) ==
        IF pos + db.page_size > Len(file)
        THEN [r |-> Err("Failed to read page", <<page_num>>),
              db |-> [db EXCEPT !.pos = Max({pos, Len(file)})]]
        ELSE [r |-> Ok(Slice(file, pos, pos + db.page_size), <<page_num>>),
              db |-> [db EXCEPT !.pos = pos + db.page_size]]
  IN IF page_num = 0
     THEN [r |-> IF overflow_checks
                 THEN Panic("attempt to subtract with overflow", <<0>>)
                 ELSE Err("Failed to seek to page", <<0>>),
           db |-> db]
     ELSE Sought((page_num - 1) * db.page_size)

\* db.read_page(page_num), once more on the same Database.
ReadPageAgain ==
  /\ pc = "open"
  /\ Len(call.history) < MaxCalls
  /\ \E page_num \in 0..(input.pages + 1) :
       LET Read(read) ==
             /\ call' = [op |-> "read_page", page_num |-> page_num,
                         history |-> Append(call.history, page_num), db |-> read.db]
             /\ out' = read.r
             /\ pc' = IF read.r.tag = "Panic" THEN "done" ELSE "open"
       IN Read(Database_read_page(PagerFile(input), call.db, input.overflow_checks,
                                  page_num))
  /\ UNCHANGED input

NextSession == ReadPageAgain

SpecSession == InitSession /\ [][NextSession]_vars

\* C30: after any sequence of read_page calls on one Database, successful
\* or failed, page_size is what Database::open read, and the last call
\* returned what read_page(n) returns as the first call on the opened
\* file: for a page inside the file the page_size bytes at offset
\* (n - 1) * page_size of the unchanged file.
C30_ReadsHaveNoHistory ==
  call.op = "read_page"
  => /\ call.db.page_size = OpenedDatabase(input).page_size
     /\ out = Database_read_page(PagerFile(input), OpenedDatabase(input),
                                 input.overflow_checks, call.page_num).r
     /\ (call.page_num >= 1 /\ call.page_num <= input.pages) =>
          /\ out.tag = "Ok"
          /\ out.v = [i \in 1..input.page_size |->
                        PagerByte(input, (call.page_num - 1) * input.page_size + i - 1)]

\* C30's case: page 1 read after a read past the end of the file failed
\* and a read of page 0 failed, on a file of two pages.
C30_Witness ==
  /\ call.op = "read_page" /\ input.pages = 2
  /\ call.history = <<3, 0, 1>>
  /\ out.tag = "Ok"

====
